---------------------------- MODULE Spec2Model ----------------------------
(***************************************************************************)
(* A model of the turn simulation core of the roguelike:                   *)
(*   - the message log (roguelike_core/src/messaging.rs),                  *)
(*   - momentum, fighters and objects (roguelike_core/src/types.rs),       *)
(*   - the movement resolver (roguelike_main/src/movement.rs),             *)
(*   - the turn stepper (roguelike_engine/src/game.rs).                    *)
(* Each part has its own specification over the shared variables; the      *)
(* variables a specification does not use stay at their initial value.     *)
(***************************************************************************)
EXTENDS Integers, Sequences, FiniteSets, TLC

VARIABLES
    msg_log,    \* MsgLog { messages, turn_messages }
    log_hist,   \* the last MsgLog call: its name, argument and return value
    momentum,   \* a Momentum value { mx, my, took_half_turn, max }
    mom_op,     \* the last Momentum call and its arguments
    objects,    \* Vec<Object> of the movement resolver, indexed by ObjectId
    map,        \* the Map the movement resolver consults
    last_move,  \* the last resolver call: mover, direction, Movement, PlayerAction
    settings,   \* GameSettings { state, turn_count, level_num, exiting, ... }
    entities,   \* the entity store of GameData
    rng,        \* the random number generator of the Game: its seed, its draws
    last_step,  \* the last step_game call: input, translated action, result
    io,         \* stdin, the channel of the command reader, and the game loop
    key_input   \* the Input of the game (char_held) and its last event

vars == <<msg_log, log_hist, momentum, mom_op, objects, map, last_move,
          settings, entities, rng, last_step, io, key_input>>

----------------------------------------------------------------------------
(* Generic helpers.                                                        *)

None == "None"

Abs(n) == IF n < 0 THEN -n ELSE n

\* i32::signum
Signum(n) == IF n > 0 THEN 1 ELSE IF n < 0 THEN -1 ELSE 0

\* num::clamp(value, min, max)
Clamp(value, lo, hi) == IF value < lo THEN lo ELSE IF value > hi THEN hi ELSE value

Range(s) == { s[i] : i \in 1..Len(s) }

----------------------------------------------------------------------------
(* The message log: messaging.rs.                                          *)

\* MsgLog::new
MsgLogNew == [messages |-> <<>>, turn_messages |-> <<>>]

\* A bug Pop could have: taking the newest message instead of the oldest.
PopRestFromBack(l) ==
    [l EXCEPT !.messages =
        IF Len(l.messages) = 0 THEN <<>>
        ELSE SubSeq(l.messages, 1, Len(l.messages) - 1)]

\* A bug Pop could have: taking the message off the turn log as well.
PopRestBoth(l) ==
    [messages |-> IF Len(l.messages) = 0 THEN <<>> ELSE Tail(l.messages),
     turn_messages |-> IF Len(l.turn_messages) = 0 THEN <<>> ELSE Tail(l.turn_messages)]

\* MsgLog::pop, the log it leaves: VecDeque::pop_front on messages only.
PopRest(l) ==
    [l EXCEPT !.messages = IF Len(l.messages) = 0 THEN <<>> ELSE Tail(l.messages)]

\* Option<Msg>::None
NoMsg == [typ |-> "None"]

\* MsgLog::pop, the value it returns: Some(front) or None.
PopValue(l) == IF Len(l.messages) = 0 THEN NoMsg ELSE Head(l.messages)

\* A bug Log could have: writing the main log only.
LogMainOnly(l, msg) == [l EXCEPT !.messages = Append(l.messages, msg)]

\* MsgLog::log: push_back on both queues.
Log(l, msg) ==
    [messages |-> Append(l.messages, msg),
     turn_messages |-> Append(l.turn_messages, msg)]

\* A bug log_front could have: the turn log extended at the back.
LogFrontTurnBack(l, msg) ==
    [messages |-> <<msg>> \o l.messages,
     turn_messages |-> Append(l.turn_messages, msg)]

\* MsgLog::log_front: push_front on both queues.
LogFront(l, msg) ==
    [messages |-> <<msg>> \o l.messages,
     turn_messages |-> <<msg>> \o l.turn_messages]

\* MsgLog::clear: both queues emptied.
Clear(l) == [messages |-> <<>>, turn_messages |-> <<>>]

\* The number of messages one run of SpecLog may log.
MaxMsgs == 4

\* The messages of SpecLog carry the order in which they were handed to the log.
LogMsg(n) == [typ |-> "Msg", id |-> n]

LogHistInit == [op |-> "new", msg |-> NoMsg, ret |-> NoMsg, next |-> 0, fronts |-> {}]

InitLog ==
    /\ msg_log = MsgLogNew
    /\ log_hist = LogHistInit

\* A caller logs the next message.
LogOp ==
    /\ log_hist.next < MaxMsgs
    /\ msg_log' = Log(msg_log, LogMsg(log_hist.next))
    /\ log_hist' = [log_hist EXCEPT !.op = "log", !.msg = LogMsg(log_hist.next),
                                    !.ret = NoMsg, !.next = @ + 1]
    /\ UNCHANGED <<momentum, mom_op, objects, map, last_move, settings, entities, rng, last_step, io, key_input>>

\* A caller logs the next message with priority.
LogFrontOp ==
    /\ log_hist.next < MaxMsgs
    /\ msg_log' = LogFront(msg_log, LogMsg(log_hist.next))
    /\ log_hist' = [log_hist EXCEPT !.op = "log_front", !.msg = LogMsg(log_hist.next),
                                    !.ret = NoMsg, !.next = @ + 1,
                                    !.fronts = @ \cup {log_hist.next}]
    /\ UNCHANGED <<momentum, mom_op, objects, map, last_move, settings, entities, rng, last_step, io, key_input>>

\* A caller pops; an empty log returns None.
PopOp ==
    /\ msg_log' = PopRest(msg_log)
    /\ log_hist' = [log_hist EXCEPT !.op = "pop", !.msg = NoMsg, !.ret = PopValue(msg_log)]
    /\ UNCHANGED <<momentum, mom_op, objects, map, last_move, settings, entities, rng, last_step, io, key_input>>

\* A caller clears the log.
ClearOp ==
    /\ msg_log' = Clear(msg_log)
    /\ log_hist' = [log_hist EXCEPT !.op = "clear", !.msg = NoMsg, !.ret = NoMsg]
    /\ UNCHANGED <<momentum, mom_op, objects, map, last_move, settings, entities, rng, last_step, io, key_input>>

----------------------------------------------------------------------------
(* Momentum: types.rs.                                                     *)

\* Momentum::default sets max: 2.
MomentumMax == 2

\* Momentum::default
MomentumDefault == [mx |-> 0, my |-> 0, took_half_turn |-> FALSE, max |-> MomentumMax]

\* Momentum::magnitude
Magnitude(m) == IF Abs(m.mx) > Abs(m.my) THEN Abs(m.mx) ELSE Abs(m.my)

\* A bug moved could have: adding the step without clamping it.
MovedAxisUnclamped(cur, delta, max) ==
    IF cur # 0 /\ Signum(delta) # Signum(cur) THEN 0 ELSE cur + Signum(delta)

\* Momentum::moved, one axis: lose the momentum when the step does not go its
\* way, otherwise advance by the step's sign, clamped to [-max, max].
MovedAxis(cur, delta, max) ==
    IF cur # 0 /\ Signum(delta) # Signum(cur)
    THEN 0
    ELSE Clamp(cur + Signum(delta), -max, max)

\* Momentum::moved
Moved(m, dx, dy) ==
    [m EXCEPT !.mx = MovedAxis(m.mx, dx, m.max),
              !.my = MovedAxis(m.my, dy, m.max)]

\* Momentum::set_momentum
SetMomentum(m, mx, my) == [m EXCEPT !.mx = mx, !.my = my]

\* Momentum::clear
ClearMomentum(m) == [m EXCEPT !.mx = 0, !.my = 0]

\* The largest step, per axis, SpecMomentum hands to moved.
MaxDelta == 2

Deltas == -MaxDelta..MaxDelta

\* The direction components a wall kick hands to set_momentum.
KickDirs == {-1, 0, 1}

MomOpInit == [op |-> "default", a |-> 0, b |-> 0]

InitMomentum ==
    /\ momentum = MomentumDefault
    /\ mom_op = MomOpInit

\* The entity moved by (dx, dy).
MomentumMoved ==
    /\ \E dx \in Deltas, dy \in Deltas :
            /\ momentum' = Moved(momentum, dx, dy)
            /\ mom_op' = [op |-> "moved", a |-> dx, b |-> dy]
    /\ UNCHANGED <<msg_log, log_hist, objects, map, last_move, settings, entities, rng, last_step, io, key_input>>

\* A wall kick reorients the momentum to the kick direction.
MomentumSet ==
    /\ \E dir_x \in KickDirs, dir_y \in KickDirs :
            /\ momentum' = SetMomentum(momentum, dir_x, dir_y)
            /\ mom_op' = [op |-> "set_momentum", a |-> dir_x, b |-> dir_y]
    /\ UNCHANGED <<msg_log, log_hist, objects, map, last_move, settings, entities, rng, last_step, io, key_input>>

\* A collision, or an attack without movement, clears the momentum.
MomentumClear ==
    /\ momentum' = ClearMomentum(momentum)
    /\ mom_op' = [op |-> "clear", a |-> 0, b |-> 0]
    /\ UNCHANGED <<msg_log, log_hist, objects, map, last_move, settings, entities, rng, last_step, io, key_input>>

----------------------------------------------------------------------------
(* Objects and fighters: types.rs.                                         *)

NoFighter == [present |-> FALSE]

Fighter(max_hp, hp, defense, power, on_death) ==
    [present |-> TRUE, max_hp |-> max_hp, hp |-> hp, defense |-> defense,
     power |-> power, on_death |-> on_death]

NoMomentum == [present |-> FALSE]

SomeMomentum(m) == [present |-> TRUE, m |-> m]

\* Reach::Single(n), Reach::Diag(n), Reach::Horiz(n)
Reach(kind, dist) == [kind |-> kind, dist |-> dist]

\* Object::new: not alive, and no optional attribute.
ObjectNew(x, y, chr, name, blocks) ==
    [x |-> x, y |-> y, char |-> chr, name |-> <<name>>, blocks |-> blocks,
     alive |-> FALSE, fighter |-> NoFighter, ai |-> None,
     momentum |-> NoMomentum, movement |-> None]

\* Object::pos
Pos(o) == <<o.x, o.y>>

\* Object::set_pos
SetPos(o, x, y) == [o EXCEPT !.x = x, !.y = y]

\* player_death
PlayerDeath(o) == [o EXCEPT !.char = "%"]

\* monster_death
MonsterDeath(o) ==
    [o EXCEPT !.char = "%", !.blocks = FALSE, !.fighter = NoFighter, !.ai = None,
              !.name = <<"remains of">> \o @]

\* DeathCallback::callback
DeathCallback(on_death, o) ==
    IF on_death = "Player" THEN PlayerDeath(o) ELSE MonsterDeath(o)

\* A bug take_damage could have: a fighter that dies only below zero.
TakeDamageLateDeath(o, damage) ==
    LET hit == IF o.fighter.present /\ damage > 0
               THEN [o EXCEPT !.fighter.hp = @ - damage]
               ELSE o
    IN  IF hit.fighter.present /\ hit.fighter.hp < 0
        THEN DeathCallback(hit.fighter.on_death, [hit EXCEPT !.alive = FALSE])
        ELSE hit

\* Object::take_damage: a positive damage is taken off hp; then a fighter at
\* or below zero is marked dead and its death callback runs.
TakeDamage(o, damage) ==
    LET hit == IF o.fighter.present /\ damage > 0
               THEN [o EXCEPT !.fighter.hp = @ - damage]
               ELSE o
    IN  IF hit.fighter.present /\ hit.fighter.hp <= 0
        THEN DeathCallback(hit.fighter.on_death, [hit EXCEPT !.alive = FALSE])
        ELSE hit

\* Object::attack, the damage: the attacker's power less the target's
\* defense, each 0 without a fighter.
AttackDamage(attacker, target) ==
    (IF attacker.fighter.present THEN attacker.fighter.power ELSE 0)
    - (IF target.fighter.present THEN target.fighter.defense ELSE 0)

\* Object::attack, the target it leaves.
Attack(attacker, target) ==
    IF AttackDamage(attacker, target) > 0
    THEN TakeDamage(target, AttackDamage(attacker, target))
    ELSE target

\* Object::heal: hp raised by amount and capped at max_hp.
Heal(o, amount) ==
    IF o.fighter.present
    THEN [o EXCEPT !.fighter.hp =
             IF @ + amount > o.fighter.max_hp THEN o.fighter.max_hp ELSE @ + amount]
    ELSE o

\* Object::make_stone
MakeStone(x, y) == ObjectNew(x, y, "o", "stone", FALSE)

\* The player's index in the object list.
PLAYER == 1

\* The player as the object list holds it: alive, blocking, a fighter whose
\* death callback is Player, the default momentum and a reach of Single(1).
MakePlayer(x, y, hp, power) ==
    [ObjectNew(x, y, "@", "player", TRUE) EXCEPT
        !.alive = TRUE,
        !.fighter = Fighter(hp, hp, 0, power, "Player"),
        !.momentum = SomeMomentum(MomentumDefault),
        !.movement = Reach("Single", 1)]

\* A monster as the object list holds it: alive, blocking, a fighter whose
\* death callback is Monster, an ai, no momentum.
MakeMonster(x, y, name, hp, power, defense, reach) ==
    [ObjectNew(x, y, "g", name, TRUE) EXCEPT
        !.alive = TRUE,
        !.fighter = Fighter(hp, hp, defense, power, "Monster"),
        !.ai = "Basic",
        !.movement = reach]

ObjectIds == DOMAIN objects

----------------------------------------------------------------------------
(* SpecFight: attack, take_damage and heal on a list of objects.           *)

\* The largest max_hp, power and defense of a fighter of SpecFight.
MaxHp == 2
MaxPower == 2
MaxDefense == 1

\* The largest damage handed to take_damage, and the largest amount to heal.
MaxDamage == 2
MaxHeal == 2

\* Damage is dealt only while hp stays at or above -HpFloor.
HpFloor == 1

LastMoveInit == [op |-> "none"]

\* The player, a monster and a stone, with every choice of fighter values.
InitFight ==
    /\ \E php \in 1..MaxHp, ppow \in 0..MaxPower,
          mhp \in 1..MaxHp, mpow \in 0..MaxPower, mdef \in 0..MaxDefense :
          objects = << MakePlayer(0, 0, php, ppow),
                       MakeMonster(1, 0, "gol", mhp, mpow, mdef, Reach("Single", 1)),
                       MakeStone(2, 0) >>
    /\ last_move = LastMoveInit

\* hp after the damage stays within the range the model follows.
DamageInRange(o, damage) ==
    o.fighter.present /\ damage > 0 => o.fighter.hp - damage >= -HpFloor

\* Some caller damages an object.
TakeDamageOp ==
    /\ \E id \in ObjectIds, damage \in -1..MaxDamage :
            /\ DamageInRange(objects[id], damage)
            /\ objects' = [objects EXCEPT ![id] = TakeDamage(@, damage)]
            /\ last_move' = [op |-> "take_damage", id |-> id, arg |-> damage]
    /\ UNCHANGED <<msg_log, log_hist, momentum, mom_op, map, settings, entities, rng, last_step, io, key_input>>

\* One object attacks another.
AttackOp ==
    /\ \E a \in ObjectIds, t \in ObjectIds :
            /\ a # t
            /\ DamageInRange(objects[t], AttackDamage(objects[a], objects[t]))
            /\ objects' = [objects EXCEPT ![t] = Attack(objects[a], @)]
            /\ last_move' = [op |-> "attack", id |-> t, arg |-> a]
    /\ UNCHANGED <<msg_log, log_hist, momentum, mom_op, map, settings, entities, rng, last_step, io, key_input>>

\* Some caller heals an object.
HealOp ==
    /\ \E id \in ObjectIds, amount \in 0..MaxHeal :
            /\ objects' = [objects EXCEPT ![id] = Heal(@, amount)]
            /\ last_move' = [op |-> "heal", id |-> id, arg |-> amount]
    /\ UNCHANGED <<msg_log, log_hist, momentum, mom_op, map, settings, entities, rng, last_step, io, key_input>>

----------------------------------------------------------------------------
(* The movement resolver: movement.rs, with Reach of types.rs.             *)

MoveActions ==
    {"Left", "Right", "Up", "Down", "DownLeft", "DownRight", "UpLeft", "UpRight",
     "Center"}

\* Offsets with the y axis pointing up.
DirOffsetYUp(move_action, dist) ==
    CASE move_action = "Left"      -> <<-dist, 0>>
      [] move_action = "Right"     -> <<dist, 0>>
      [] move_action = "Up"        -> <<0, dist>>
      [] move_action = "Down"      -> <<0, -dist>>
      [] move_action = "DownLeft"  -> <<-dist, -dist>>
      [] move_action = "DownRight" -> <<dist, -dist>>
      [] move_action = "UpLeft"    -> <<-dist, dist>>
      [] move_action = "UpRight"   -> <<dist, dist>>
      [] move_action = "Center"    -> <<0, 0>>

\* The offset of a direction at distance dist, as the three arms of
\* move_with_reach spell it.
DirOffset(move_action, dist) ==
    CASE move_action = "Left"      -> <<-dist, 0>>
      [] move_action = "Right"     -> <<dist, 0>>
      [] move_action = "Up"        -> <<0, -dist>>
      [] move_action = "Down"      -> <<0, dist>>
      [] move_action = "DownLeft"  -> <<-dist, dist>>
      [] move_action = "DownRight" -> <<dist, dist>>
      [] move_action = "UpLeft"    -> <<-dist, -dist>>
      [] move_action = "UpRight"   -> <<dist, -dist>>
      [] move_action = "Center"    -> <<0, 0>>

\* Option<Position>::None
NoOffset == <<>>

\* Reach::move_with_reach: Some(offset) or None.
MoveWithReach(reach, move_action) ==
    CASE reach.kind = "Single" -> DirOffset(move_action, reach.dist)
      [] reach.kind = "Diag" ->
            IF move_action \in {"Left", "Right", "Up", "Down"}
            THEN NoOffset
            ELSE DirOffset(move_action, reach.dist)
      [] reach.kind = "Horiz" ->
            IF move_action \in {"Left", "Right", "Up", "Down"}
            THEN DirOffset(move_action, reach.dist)
            ELSE NoOffset

\* Reach::offsets, the loop of the Horiz and Diag arms: the four offsets
\* pushed for each dist of the range from..(to - 1), in order.
RECURSIVE OffsetsLoop(_, _, _)
OffsetsLoop(kind, from, to) ==
    IF from >= to THEN <<>>
    ELSE (IF kind = "Horiz"
          THEN << <<from, 0>>, <<0, from>>, <<-1 * from, 0>>, <<0, -1 * from>> >>
          ELSE << <<from, from>>, <<-1 * from, from>>,
                  <<from, -1 * from>>, <<-1 * from, -1 * from>> >>)
         \o OffsetsLoop(kind, from + 1, to)

\* Reach::offsets
Offsets(reach) ==
    LET dist == reach.dist
    IN  CASE reach.kind = "Single" ->
                << <<0, dist>>,      <<-dist, dist>>, <<-dist, 0>>,
                   <<-dist, -dist>>, <<0, -dist>>,    <<dist, -dist>>,
                   <<dist, 0>>,      <<dist, dist>> >>
          [] reach.kind = "Horiz" -> OffsetsLoop("Horiz", 1, dist)
          [] reach.kind = "Diag"  -> OffsetsLoop("Diag", 1, dist)

\* The map of the resolver: its size, the tiles that block, and the tiles
\* with a wall on their left or bottom side.
MapOf(width, height, blocked, left_wall, bottom_wall) ==
    [width |-> width, height |-> height, blocked |-> blocked,
     left_wall |-> left_wall, bottom_wall |-> bottom_wall]

\* Map::empty: a map without tiles.
NoMap == MapOf(0, 0, {}, {}, {})

\* Map::is_within_bounds
IsWithinBounds(m, x, y) == x >= 0 /\ y >= 0 /\ x < m.width /\ y < m.height

\* map[(x, y)].blocked
TileBlocked(m, x, y) == <<x, y>> \in m.blocked

\* is_blocked: the tile blocks, or a blocking object stands on it.
IsBlocked(m, x, y, objs) ==
    \/ TileBlocked(m, x, y)
    \/ \E i \in DOMAIN objs : objs[i].blocks /\ Pos(objs[i]) = <<x, y>>

\* Map::is_blocked_by_wall: a wall side lies between (x, y) and the next tile
\* in the direction of (dx, dy).
IsBlockedByWall(m, x, y, dx, dy) ==
    \/ dx >= 1 /\ <<x + 1, y>> \in m.left_wall
    \/ dx <= -1 /\ <<x, y>> \in m.left_wall
    \/ dy >= 1 /\ <<x, y>> \in m.bottom_wall
    \/ dy <= -1 /\ <<x, y - 1>> \in m.bottom_wall

\* tcod's Line::new(start, end) as an iterator: the tiles after start up to
\* and including end. The resolver hands it axis-parallel and diagonal lines
\* only (the offsets of move_with_reach), where Bresenham's steps are unit
\* steps along the direction.
Line(x, y, dx, dy) ==
    LET n == IF Abs(dx) > Abs(dy) THEN Abs(dx) ELSE Abs(dy)
    IN  [i \in 1..n |-> <<x + i * Signum(dx), y + i * Signum(dy)>>]

\* The first object of the list standing on a tile, whatever it blocks:
\* objects.iter().enumerate().find(|obj| obj.pos() == tile).
FirstObjectAt(objs, tile) ==
    CHOOSE i \in DOMAIN objs :
        /\ Pos(objs[i]) = tile
        /\ \A j \in DOMAIN objs : Pos(objs[j]) = tile => i <= j

NoCollision(x, y) == [kind |-> "NoCollision", pos |-> <<x, y>>]
BlockedTile(tile, last) == [kind |-> "BlockedTile", tile |-> tile, last |-> last]
WallCollision(tile, last) == [kind |-> "Wall", tile |-> tile, last |-> last]
EntityCollision(id, last) == [kind |-> "Entity", id |-> id, last |-> last]

\* The loop of check_collision from the i-th tile of the line on.
RECURSIVE WalkLine(_, _, _, _, _, _, _)
WalkLine(line, i, last_pos, objs, dx, dy, m) ==
    IF i > Len(line)
    THEN NoCollision(line[Len(line)][1], line[Len(line)][2])
    ELSE LET x_pos == line[i][1]
             y_pos == line[i][2]
         IN  IF IsBlocked(m, x_pos, y_pos, objs)
             THEN IF TileBlocked(m, x_pos, y_pos)
                  THEN BlockedTile(<<x_pos, y_pos>>, last_pos)
                  ELSE EntityCollision(FirstObjectAt(objs, <<x_pos, y_pos>>), last_pos)
             ELSE IF IsBlockedByWall(m, x_pos, y_pos, dx, dy)
                  THEN WallCollision(<<x_pos + dx, y_pos + dy>>, <<x_pos, y_pos>>)
                  ELSE WalkLine(line, i + 1, <<x_pos, y_pos>>, objs, dx, dy, m)

\* check_collision
CheckCollision(object_id, objs, dx, dy, m) ==
    LET x == objs[object_id].x
        y == objs[object_id].y
    IN  IF ~IsWithinBounds(m, x + dx, y + dy)
        THEN WallCollision(<<x, y>>, <<x, y>>)
        ELSE IF dx = 0 /\ dy = 0
             THEN NoCollision(x, y)
             ELSE WalkLine(Line(x, y, dx, dy), 1, <<x, y>>, objs, dx, dy, m)

\* The momentum magnitude at which a wall is jumped.
MAX_MOMENTUM == 2

NoMovement == [typ |-> "None"]
MoveTo(x, y) == [typ |-> "Move", x |-> x, y |-> y]
AttackAt(x, y, target) == [typ |-> "Attack", x |-> x, y |-> y, target |-> target]
JumpWall(x, y) == [typ |-> "JumpWall", x |-> x, y |-> y]

\* A bug the Wall arm could have: jumping without looking at the tile beyond
\* the wall.
WallArmJumpsOntoBlocked(collision, mover, x, y, dx, dy, objs, m) ==
    IF mover.momentum.present
    THEN IF Magnitude(mover.momentum.m) = MAX_MOMENTUM
         THEN JumpWall(collision.tile[1], collision.tile[2])
         ELSE MoveTo(collision.last[1], collision.last[2])
    ELSE MoveTo(x + dx, y + dy)

\* calculate_move, the Collision::Wall arm.
WallArm(collision, mover, x, y, dx, dy, objs, m) ==
    IF mover.momentum.present
    THEN IF /\ Magnitude(mover.momentum.m) = MAX_MOMENTUM
            /\ ~IsBlocked(m, collision.tile[1], collision.tile[2], objs)
         THEN JumpWall(collision.tile[1], collision.tile[2])
         ELSE MoveTo(collision.last[1], collision.last[2])
    ELSE MoveTo(x + dx, y + dy)

\* calculate_move: Some(Movement) or None.
CalculateMove(action, reach, object_id, objs, m) ==
    LET x == objs[object_id].x
        y == objs[object_id].y
        delta == MoveWithReach(reach, action)
    IN  IF delta = NoOffset
        THEN NoMovement
        ELSE LET dx == delta[1]
                 dy == delta[2]
                 c == CheckCollision(object_id, objs, dx, dy, m)
             IN  CASE c.kind = "NoCollision" -> MoveTo(c.pos[1], c.pos[2])
                   [] c.kind = "BlockedTile" -> MoveTo(c.last[1], c.last[2])
                   [] c.kind = "Wall" -> WallArm(c, objs[object_id], x, y, dx, dy, objs, m)
                   [] c.kind = "Entity" -> AttackAt(c.last[1], c.last[2], c.id)

\* calculate_move indexes the map at the tile beyond a wall: it panics when
\* that tile is off the map.
CalculateMovePanics(action, reach, object_id, objs, m) ==
    LET delta == MoveWithReach(reach, action)
    IN  /\ delta # NoOffset
        /\ LET c == CheckCollision(object_id, objs, delta[1], delta[2], m)
           IN  /\ c.kind = "Wall"
               /\ objs[object_id].momentum.present
               /\ Magnitude(objs[object_id].momentum.m) = MAX_MOMENTUM
               /\ ~IsWithinBounds(m, c.tile[1], c.tile[2])

\* A bug the half-turn test could have: a half turn at every move made at
\* a momentum above 1.
MovePlayerActionByMomentum(momentum_copy) ==
    IF Magnitude(momentum_copy) > 1 THEN "TookHalfTurn" ELSE "TookTurn"

\* player_move_or_attack, Move/JumpWall arm: the PlayerAction, decided on
\* the copy of the momentum taken before the move.
MovePlayerAction(momentum_copy) ==
    IF Magnitude(momentum_copy) > 1 /\ ~momentum_copy.took_half_turn
    THEN "TookHalfTurn"
    ELSE "TookTurn"

\* player_move_or_attack: the object list it leaves and the PlayerAction it
\* returns, for the Movement calculate_move gave.
ApplyPlayerMovement(movement, objs) ==
    LET player == objs[PLAYER]
    IN  CASE movement.typ = "Attack" ->
               LET target == Attack(player, objs[movement.target])
                   standing == <<movement.x, movement.y>> = Pos(player)
                   cleared == IF standing /\ player.momentum.present
                              THEN [player EXCEPT !.momentum.m = ClearMomentum(@)]
                              ELSE player
               IN  [objects |-> [objs EXCEPT
                        ![movement.target] = target,
                        ![PLAYER] = SetPos(cleared, movement.x, movement.y)],
                    player_action |-> "TookTurn"]
          [] movement.typ = "Collide" ->
               \* momentum.unwrap() copies the Momentum: clear() clears the copy.
               [objects |-> [objs EXCEPT ![PLAYER] = SetPos(@, movement.x, movement.y)],
                player_action |-> "TookTurn"]
          [] movement.typ \in {"Move", "JumpWall"} ->
               LET dx == movement.x - player.x
                   dy == movement.y - player.y
                   \* the copy taken before moved() is the one the test reads
                   before == player.momentum.m
                   player_action == MovePlayerAction(before)
                   after == [Moved(before, dx, dy) EXCEPT
                                !.took_half_turn = (player_action = "TookHalfTurn")]
               IN  [objects |-> [objs EXCEPT ![PLAYER] =
                        [SetPos(@, movement.x, movement.y) EXCEPT !.momentum.m = after]],
                    player_action |-> player_action]
          [] movement.typ = "WallKick" ->
               \* set_momentum acts on a copy of the Momentum as well.
               [objects |-> [objs EXCEPT ![PLAYER] = SetPos(@, movement.x, movement.y)],
                player_action |-> "TookTurn"]
          [] movement.typ = "None" ->
               [objects |-> objs, player_action |-> "DidntTakeTurn"]

\* player_move_or_attack
PlayerMoveOrAttack(move_action, m, objs) ==
    ApplyPlayerMovement(
        CalculateMove(move_action, objs[PLAYER].movement, PLAYER, objs, m), objs)

\* The movement of another entity put into effect: an Attack strikes the
\* target, and every movement moves the entity to the tile it names.
ApplyEntityMovement(id, movement, objs) ==
    CASE movement.typ = "Attack" ->
           [objs EXCEPT ![movement.target] = Attack(objs[id], @),
                        ![id] = SetPos(@, movement.x, movement.y)]
      [] movement.typ = "None" -> objs
      [] OTHER -> [objs EXCEPT ![id] = SetPos(@, movement.x, movement.y)]

----------------------------------------------------------------------------
(* SpecMove: the player, a stone and a monster on a small map.             *)

\* The size of the map of SpecMove.
MapWidth == 3
MapHeight == 2

\* The longest reach of the monster of SpecMove.
MaxReach == 2

\* The maps of SpecMove: with or without a blocking tile at the end of the
\* top row, and with or without a wall on the left side of the last tile of
\* the bottom row.
MoveMaps ==
    { MapOf(MapWidth, MapHeight, b, l, {}) :
        b \in {{}, {<<MapWidth - 1, 0>>}},
        l \in {{}, {<<MapWidth - 1, MapHeight - 1>>}} }

\* The player in a corner, a stone lying on the next tile, and a monster
\* that moves one tile or more at a time.
InitMove ==
    /\ map \in MoveMaps
    /\ \E dist \in 1..MaxReach :
          objects = << MakePlayer(0, 0, 2, 1),
                       MakeStone(1, 0),
                       MakeMonster(0, MapHeight - 1, "gol", 1, 1, 0,
                                   Reach("Single", dist)) >>
    /\ last_move = LastMoveInit

\* Every object stands on the map: a run is followed up to the first
\* position off the map.
AllOnMap == \A i \in ObjectIds : IsWithinBounds(map, objects[i].x, objects[i].y)

\* The living player moves or attacks in a direction.
PlayerMove ==
    /\ \E move_action \in MoveActions :
        /\ AllOnMap
        /\ objects[PLAYER].alive
        /\ ~CalculateMovePanics(move_action, objects[PLAYER].movement, PLAYER, objects, map)
        /\ LET movement == CalculateMove(move_action, objects[PLAYER].movement,
                                         PLAYER, objects, map)
               r == PlayerMoveOrAttack(move_action, map, objects)
           IN  /\ objects' = r.objects
               /\ last_move' = [op |-> "player_move", typ |-> movement.typ]
    /\ UNCHANGED <<msg_log, log_hist, momentum, mom_op, map, settings, entities, rng, last_step, io, key_input>>

\* A monster with an ai moves or attacks in a direction.
EntityMove ==
    /\ \E id \in ObjectIds \ {PLAYER}, move_action \in MoveActions :
        /\ AllOnMap
        /\ objects[id].ai # None
        /\ LET movement == CalculateMove(move_action, objects[id].movement,
                                         id, objects, map)
           IN  /\ movement.typ = "Attack" =>
                     DamageInRange(objects[movement.target],
                                   AttackDamage(objects[id], objects[movement.target]))
               /\ objects' = ApplyEntityMovement(id, movement, objects)
               /\ last_move' = [op |-> "entity_move", typ |-> movement.typ]
    /\ UNCHANGED <<msg_log, log_hist, momentum, mom_op, map, settings, entities, rng, last_step, io, key_input>>

----------------------------------------------------------------------------
(* SpecResolve: check_collision, calculate_move and player_move_or_attack  *)
(* as functions of one world: the player anywhere on the map with any      *)
(* momentum, the stone, and the monster on any other tile.                 *)

\* Movement::Collide
Collide(x, y) == [typ |-> "Collide", x |-> x, y |-> y]

\* The tiles of a map.
Tiles(m) == (0..(m.width - 1)) \X (0..(m.height - 1))

\* The momentum the player may have built up: any speed on the x axis, none
\* or one step on the y axis, after either kind of turn.
Momenta ==
    { [MomentumDefault EXCEPT !.mx = a, !.my = b, !.took_half_turn = t] :
        a \in (-MomentumMax)..MomentumMax, b \in 0..1, t \in BOOLEAN }

\* The maps of SpecResolve: those of SpecMove, and one whose last tile of
\* the bottom row blocks behind the wall on its left side.
ResolveMaps ==
    MoveMaps \cup
    { MapOf(MapWidth, MapHeight, {<<MapWidth - 1, MapHeight - 1>>},
            {<<MapWidth - 1, MapHeight - 1>>}, {}) }

\* The player on any tile, the stone on the second tile of the top row, the
\* monster on any tile the player leaves free (it may stand on the stone).
InitResolve ==
    /\ map \in ResolveMaps
    /\ \E p \in Tiles(map), g \in Tiles(map), mom \in Momenta :
          /\ p # g
          /\ objects = << [MakePlayer(p[1], p[2], 2, 1) EXCEPT !.momentum.m = mom],
                          MakeStone(1, 0),
                          MakeMonster(g[1], g[2], "gol", 1, 1, 0,
                                      Reach("Single", 1)) >>
    /\ last_move = LastMoveInit

\* One call of player_move_or_attack on the world drawn.
PlayerMoveOrAttackOp ==
    /\ last_move = LastMoveInit
    /\ \E move_action \in MoveActions :
        /\ ~CalculateMovePanics(move_action, objects[PLAYER].movement, PLAYER, objects, map)
        /\ LET r == PlayerMoveOrAttack(move_action, map, objects)
           IN  /\ objects' = r.objects
               /\ last_move' = [op |-> "player_move_or_attack",
                                move_action |-> move_action,
                                movement |-> CalculateMove(move_action,
                                                 objects[PLAYER].movement,
                                                 PLAYER, objects, map),
                                player_action |-> r.player_action]
    /\ UNCHANGED <<msg_log, log_hist, momentum, mom_op, map, settings, entities, rng, last_step, io, key_input>>

\* One call of check_collision for the player or the monster, along a line
\* of one tile or more, on a world whose player is at rest (check_collision
\* reads no momentum).
CheckCollisionOp ==
    /\ last_move = LastMoveInit
    /\ objects[PLAYER].momentum.m = MomentumDefault
    /\ \E id \in ObjectIds, move_action \in MoveActions, dist \in 1..MaxReach :
        /\ objects[id].alive
        /\ LET delta == MoveWithReach(Reach("Single", dist), move_action)
           IN  /\ delta # NoOffset
               /\ last_move' = [op |-> "check_collision", id |-> id,
                                dx |-> delta[1], dy |-> delta[2],
                                ret |-> CheckCollision(id, objects, delta[1], delta[2], map)]
    /\ UNCHANGED <<objects, msg_log, log_hist, momentum, mom_op, map, settings, entities, rng, last_step, io, key_input>>

\* The Movement::Collide arm of player_move_or_attack, for a collision that
\* stops the player where it stands.
CollideOp ==
    /\ last_move = LastMoveInit
    /\ LET movement == Collide(objects[PLAYER].x, objects[PLAYER].y)
           r == ApplyPlayerMovement(movement, objects)
       IN  /\ objects' = r.objects
           /\ last_move' = [op |-> "collide", movement |-> movement,
                            player_action |-> r.player_action]
    /\ UNCHANGED <<msg_log, log_hist, momentum, mom_op, map, settings, entities, rng, last_step, io, key_input>>

\* Movement::WallKick
WallKick(x, y, dir_x, dir_y) ==
    [typ |-> "WallKick", x |-> x, y |-> y, dir_x |-> dir_x, dir_y |-> dir_y]

\* A tile an object can step on: on the map and not blocked.
FreeTile(m, x, y, objs) == IsWithinBounds(m, x, y) /\ ~IsBlocked(m, x, y, objs)

\* The wall kicks of a diagonal step (dx, dy) of the player: the step along
\* one axis is blocked and the tile of the step along the other axis, the
\* slide, is free; the kick goes to the slid tile, in the direction of the
\* slide.
WallKicks(objs, m, dx, dy) ==
    LET x == objs[PLAYER].x
        y == objs[PLAYER].y
    IN  IF dx = 0 \/ dy = 0
        THEN {}
        ELSE (IF ~FreeTile(m, x + dx, y, objs) /\ FreeTile(m, x, y + dy, objs)
              THEN { WallKick(x, y + dy, 0, dy) }
              ELSE {})
             \cup
             (IF ~FreeTile(m, x, y + dy, objs) /\ FreeTile(m, x + dx, y, objs)
              THEN { WallKick(x + dx, y, dx, 0) }
              ELSE {})

\* The Movement::WallKick arm of player_move_or_attack, for a wall kick of a
\* diagonal step of the player.
WallKickOp ==
    /\ last_move = LastMoveInit
    /\ \E move_action \in MoveActions :
        LET delta == DirOffset(move_action, 1)
        IN  \E movement \in WallKicks(objects, map, delta[1], delta[2]) :
              LET r == ApplyPlayerMovement(movement, objects)
              IN  /\ objects' = r.objects
                  /\ last_move' = [op |-> "wall_kick", movement |-> movement,
                                   player_action |-> r.player_action]
    /\ UNCHANGED <<msg_log, log_hist, momentum, mom_op, map, settings, entities, rng, last_step, io, key_input>>

----------------------------------------------------------------------------
(* The entity store, actions and messages the turn stepper works on.       *)

\* Option<EntityId>::None
NoId == 0

\* An Action: its kind, its argument (a direction, a behavior) and the part
\* of a turn it takes ("Full", "Half" or "None").
Action(typ, arg, turn) == [typ |-> typ, arg |-> arg, turn |-> turn]

\* Action::NoAction
NoAction == Action("NoAction", None, "None")

\* Action::takes_turn: a full-turn action; NoAction, the actions that take no
\* time and the first half of a momentum move do not take the turn.
TakesTurn(action) == action.turn = "Full"

\* A Msg: its variant, the entity it names, a second entity, an action, a tile.
Msg(typ, id, other, action, pos) ==
    [typ |-> typ, id |-> id, other |-> other, action |-> action, pos |-> pos]

NoPos == <<-1, -1>>

MsgAction(id, action)      == Msg("Action", id, NoId, action, NoPos)
MsgPlayerTurn              == Msg("PlayerTurn", NoId, NoId, NoAction, NoPos)
MsgChangeLevel             == Msg("ChangeLevel", NoId, NoId, NoAction, NoPos)
MsgSpawnedObject(id)       == Msg("SpawnedObject", id, NoId, NoAction, NoPos)
MsgMoved(id, pos)          == Msg("Moved", id, NoId, NoAction, pos)
MsgAttack(id, target)      == Msg("Attack", id, target, NoAction, NoPos)
MsgKilled(id, target)      == Msg("Killed", id, target, NoAction, NoPos)
MsgPickedUp(id, item)      == Msg("PickedUp", id, item, NoAction, NoPos)
MsgStateChange(id, action) == Msg("StateChange", id, NoId, action, NoPos)
\* Msg::GameState(state): the state it carries is kept in the arg.
MsgGameState(state)        == Msg("GameState", NoId, NoId, Action("State", state, "None"), NoPos)
MsgPlayerDeath             == Msg("PlayerDeath", NoId, NoId, NoAction, NoPos)
MsgSpikeTrapTriggered(trap, id) == Msg("SpikeTrapTriggered", trap, id, NoAction, NoPos)

\* Option<usize>::None and Some(n) of the count_down attribute.
NoCount == [present |-> FALSE, n |-> 0]

SomeCount(n) == [present |-> TRUE, n |-> n]

\* One entity: its attributes in the store. An absent optional attribute is
\* None (ai, item), NoFighter (fighter), NoCount (count_down).
EntityNew(name, pos, chr, blocks) ==
    [name |-> name, pos |-> pos, chr |-> chr, blocks |-> blocks,
     alive |-> TRUE, frozen |-> 0, ai |-> None, behavior |-> "Idle",
     limbo |-> FALSE, fighter |-> NoFighter, count_down |-> NoCount,
     needs_removal |-> FALSE, animation |-> 0, action |-> NoAction,
     inventory |-> <<>>, item |-> None, momentum |-> MomentumDefault]

\* Entities::new: no entity.
EntitiesNew == [ids |-> <<>>, ent |-> <<>>]

\* The store with one more entity under the id given.
AddEntity(data, id, e) ==
    [ids |-> Append(data.ids, id),
     ent |-> [k \in (DOMAIN data.ent) \cup {id} |->
                 IF k = id THEN e ELSE data.ent[k]]]

\* GameData::remove_entity
RemoveEntity(data, key) ==
    [ids |-> SelectSeq(data.ids, LAMBDA k : k # key),
     ent |-> [k \in (DOMAIN data.ent) \ {key} |-> data.ent[k]]]

\* GameData::find_by_name: the first entity of that name, in store order.
FindByName(data, name) ==
    LET hits == SelectSeq(data.ids, LAMBDA k : data.ent[k].name = name)
    IN  IF hits = <<>> THEN NoId ELSE Head(hits)

\* GameData::find_player
FindPlayer(data) == FindByName(data, "player")

\* GameData::find_exit
FindExit(data) == FindByName(data, "exit")

\* GameData::is_in_inventory: the first item of that kind the holder has.
IsInInventory(data, holder, item) ==
    LET hits == SelectSeq(data.ent[holder].inventory,
                          LAMBDA k : k \in DOMAIN data.ent /\ data.ent[k].item = item)
    IN  IF hits = <<>> THEN NoId ELSE Head(hits)

\* Entities::remove_item: out of the holder's inventory; the item stays in
\* the store.
RemoveItem(data, holder, item_id) ==
    [data EXCEPT !.ent[holder].inventory = SelectSeq(@, LAMBDA k : k # item_id)]

\* A bug the exit condition could have: standing on the exit is enough.
LevelExitOnTileOnly(data) ==
    /\ FindExit(data) # NoId
    /\ data.ent[FindExit(data)].pos = data.ent[FindPlayer(data)].pos

\* level_exit_condition_met
LevelExitConditionMet(data) ==
    LET player_id == FindPlayer(data)
        player_pos == data.ent[player_id].pos
        exit_id == FindExit(data)
    IN  IF exit_id # NoId
        THEN LET exit_pos == data.ent[exit_id].pos
                 has_key == IsInInventory(data, player_id, "Goal") # NoId
                 on_exit_tile == exit_pos = player_pos
             IN  has_key /\ on_exit_tile
        ELSE FALSE

----------------------------------------------------------------------------
(* The effect resolver and the planner, as far as the turn stepper needs   *)
(* them. A game value is a record: settings, data (the entity store), map, *)
(* msg_log, input_action, and three histories of the step under way:       *)
(* logged (the messages handed to the log since its last clear), plans     *)
(* (the calls of the planner: the entity, the pass, the kind of action     *)
(* returned and whether the entity was alive) and acts (the entities whose *)
(* planned action the second AI pass executed, and whether each was alive).*)

\* msg_log.log, with the history of the step.
GLog(game, msg) ==
    [game EXCEPT !.msg_log = Log(@, msg), !.logged = Append(@, msg)]

\* msg_log.log_front, with the history of the step.
GLogFront(game, msg) ==
    [game EXCEPT !.msg_log = LogFront(@, msg), !.logged = <<msg>> \o @]

\* msg_log.clear, with the history of the step.
GClear(game) == [game EXCEPT !.msg_log = Clear(@), !.logged = <<>>]

\* The movement resolver on the store, for a step of one tile: an attack on
\* the blocking entity of the target tile, else a move to the target tile; a
\* target out of bounds collides at the origin and the move ends there.
MoveOutcome(game, id, dir) ==
    LET pos == game.data.ent[id].pos
        off == DirOffset(dir, 1)
        target == <<pos[1] + off[1], pos[2] + off[2]>>
        hit == SelectSeq(game.data.ids,
                         LAMBDA k : /\ k # id
                                    /\ game.data.ent[k].blocks
                                    /\ game.data.ent[k].pos = target)
    IN  IF ~IsWithinBounds(game.map, target[1], target[2])
        THEN [typ |-> "Move", pos |-> pos, target |-> NoId]
        ELSE IF hit # <<>>
        THEN [typ |-> "Attack", pos |-> pos, target |-> Head(hit)]
        ELSE [typ |-> "Move", pos |-> target, target |-> NoId]

\* Msg::Action: the action decoded to an intent, and the intent's message.
ResolveAction(game, id, action) ==
    CASE action.typ = "Move" ->
            LET m == MoveOutcome(game, id, action.arg)
            IN  IF m.typ = "Attack"
                THEN GLog(game, MsgAttack(id, m.target))
                ELSE GLog(game, Msg("Moved", id, NoId, action, m.pos))
      [] action.typ = "Pickup" ->
            LET items == SelectSeq(game.data.ids,
                             LAMBDA k : /\ game.data.ent[k].item # None
                                        /\ game.data.ent[k].pos = game.data.ent[id].pos)
                ended == [game EXCEPT !.data.ent[id].momentum.took_half_turn = FALSE]
            IN  IF items = <<>> THEN ended ELSE GLog(ended, MsgPickedUp(id, Head(items)))
      [] action.typ = "StateChange" -> GLog(game, MsgStateChange(id, action))
      [] OTHER -> [game EXCEPT !.data.ent[id].momentum.took_half_turn = FALSE]

\* Msg::Moved: the position and the momentum of the mover; a mover that
\* enters the tile of a spike trap triggers it.
ResolveMoved(game, id, action, pos) ==
    LET old == game.data.ent[id].pos
        traps == SelectSeq(game.data.ids,
                           LAMBDA k : /\ k # id
                                      /\ game.data.ent[k].name = "spike"
                                      /\ game.data.ent[k].pos = pos)
        moved == [game EXCEPT
                     !.data.ent[id].pos = pos,
                     !.data.ent[id].momentum =
                         [Moved(@, pos[1] - old[1], pos[2] - old[2]) EXCEPT
                             !.took_half_turn = (action.turn = "Half")]]
    IN  IF pos # old /\ traps # <<>>
        THEN GLog(moved, MsgSpikeTrapTriggered(Head(traps), id))
        ELSE moved

\* The damage a spike trap deals.
SpikeDamage == 1

\* Msg::SpikeTrapTriggered: the fixed damage taken off the hp of the entity
\* on the trap; Killed at hp <= 0.
ResolveSpikeTrap(game, trap, id) ==
    LET hit == [game EXCEPT !.data.ent[id].fighter.hp = @ - SpikeDamage]
    IN  IF ~game.data.ent[id].fighter.present
        THEN game
        ELSE IF hit.data.ent[id].fighter.hp <= 0
        THEN GLogFront(hit, MsgKilled(trap, id))
        ELSE hit

\* Msg::Attack: the damage taken off the target's hp; Killed at hp <= 0. The
\* attacker did not move and loses its momentum.
ResolveAttack(game, id, target) ==
    LET damage == AttackDamage(game.data.ent[id], game.data.ent[target])
        stopped == [game EXCEPT
                       !.data.ent[id].momentum =
                           [ClearMomentum(@) EXCEPT !.took_half_turn = FALSE]]
        hit == [stopped EXCEPT !.data.ent[target].fighter.hp = @ - damage]
    IN  IF ~game.data.ent[target].fighter.present \/ damage <= 0
        THEN stopped
        ELSE IF hit.data.ent[target].fighter.hp <= 0
        THEN GLogFront(hit, MsgKilled(id, target))
        ELSE hit

\* Msg::Killed: not alive, not blocking, a corpse, no ai; the player's death
\* loses the game.
ResolveKilled(game, target) ==
    LET dead == [game EXCEPT !.data.ent[target].alive = FALSE,
                             !.data.ent[target].blocks = FALSE,
                             !.data.ent[target].chr = "%",
                             !.data.ent[target].ai = None]
    IN  IF target = FindPlayer(game.data)
        THEN [dead EXCEPT !.settings.state = "Lose"]
        ELSE dead

\* Msg::PickedUp: the item goes to the back of the inventory and leaves the
\* map.
ResolvePickedUp(game, id, item) ==
    [game EXCEPT !.data.ent[id].inventory = Append(@, item),
                 !.data.ent[item].pos = NoPos]

\* The effect of one message.
ResolveMsg(game, msg) ==
    CASE msg.typ = "Action"      -> ResolveAction(game, msg.id, msg.action)
      [] msg.typ = "Moved"       -> ResolveMoved(game, msg.id, msg.action, msg.pos)
      [] msg.typ = "Attack"      -> ResolveAttack(game, msg.id, msg.other)
      [] msg.typ = "Killed"      -> ResolveKilled(game, msg.other)
      [] msg.typ = "PickedUp"    -> ResolvePickedUp(game, msg.id, msg.other)
      [] msg.typ = "SpikeTrapTriggered" -> ResolveSpikeTrap(game, msg.id, msg.other)
      [] msg.typ = "StateChange" ->
            [game EXCEPT !.data.ent[msg.id].behavior = msg.action.arg]
      [] OTHER -> game

\* resolve_messages: pop and apply until the log is empty.
RECURSIVE ResolveMessages(_)
ResolveMessages(game) ==
    IF PopValue(game.msg_log) = NoMsg
    THEN game
    ELSE ResolveMessages(ResolveMsg([game EXCEPT !.msg_log = PopRest(@)],
                                    PopValue(game.msg_log)))

\* How far an entity with an ai sees.
SightRadius == 1

\* The direction of a unit offset.
DirOf(dx, dy) == CHOOSE d \in MoveActions : DirOffset(d, 1) = <<dx, dy>>

\* ai_take_turn: a frozen entity does nothing; an idle one that sees the
\* player turns to attack; an attacking one steps towards the player (the
\* resolver makes the step onto the player an attack), and turns idle once
\* the player is dead.
AiTakeTurn(game, id) ==
    LET e == game.data.ent[id]
        p == game.data.ent[FindPlayer(game.data)]
        dx == p.pos[1] - e.pos[1]
        dy == p.pos[2] - e.pos[2]
        dist == IF Abs(dx) > Abs(dy) THEN Abs(dx) ELSE Abs(dy)
    IN  IF e.frozen > 0 THEN NoAction
        ELSE IF e.behavior = "Idle"
        THEN IF p.alive /\ dist <= SightRadius
             THEN Action("StateChange", "Attacking", "Full")
             ELSE NoAction
        ELSE IF ~p.alive
        THEN Action("StateChange", "Idle", "Full")
        ELSE Action("Move", DirOf(Signum(dx), Signum(dy)), "Full")

\* One call of the planner, noted in the history of the step: the entity,
\* the pass of step_logic that called, the kind of action it returned, and
\* whether the entity was alive.
Planned(game, id, pass) ==
    [game EXCEPT !.plans = Append(@, <<id, pass, AiTakeTurn(game, id).typ,
                                       game.data.ent[id].alive>>)]

----------------------------------------------------------------------------
(* The turn stepper: game.rs.                                              *)

\* The seed test_game_step constructs its Game with.
Seed == 0

\* SeedableRng::seed_from_u64: a generator that has drawn nothing yet.
SeedFromU64(seed) == [seed |-> seed, draws |-> 0]

\* One use of the generator by a function it is handed to.
Draw(r) == [r EXCEPT !.draws = @ + 1]

\* GameSettings::new
GameSettingsNew(turn_count, god_mode) ==
    [turn_count |-> turn_count, god_mode |-> god_mode, exiting |-> FALSE,
     state |-> "Playing", level_num |-> 0]

\* step_logic, the entities of the AI block: those with an ai, alive, not in
\* limbo, with a fighter, in the order of the store.
AiIds(game) ==
    SelectSeq(game.data.ids,
              LAMBDA key : /\ game.data.ent[key].ai # None
                           /\ game.data.ent[key].alive
                           /\ ~game.data.ent[key].limbo
                           /\ game.data.ent[key].fighter.present)

\* step_logic, first AI loop, one entity: plan; a state change is resolved at
\* once and the entity plans again.
AiPlan(game, key) ==
    LET Set(g, action) == [g EXCEPT !.data.ent[key].action = action]
        Backup(g) == Set(Planned(g, key, 2), AiTakeTurn(g, key))
        First(action) ==
            IF action.typ = "StateChange"
            THEN Backup(ResolveMessages(GLog(Set(Planned(game, key, 1), action),
                                             MsgAction(key, action))))
            ELSE Set(Planned(game, key, 1), action)
    IN  First(AiTakeTurn(game, key))

\* step_logic, second AI loop, one entity: the planned action is logged and
\* resolved; then an entity whose fighter is at hp <= 0 is made a corpse
\* and loses its fighter.
AiAct(game, key) ==
    LET Cleanup(g) ==
            IF g.data.ent[key].fighter.present /\ g.data.ent[key].fighter.hp <= 0
            THEN [g EXCEPT !.data.ent[key].alive = FALSE,
                           !.data.ent[key].blocks = FALSE,
                           !.data.ent[key].chr = "%",
                           !.data.ent[key].fighter = NoFighter]
            ELSE g
        Acted(g) == [g EXCEPT !.acts = Append(@, <<key, g.data.ent[key].alive>>)]
    IN  Cleanup(ResolveMessages(GLog(Acted(game),
                                     MsgAction(key, game.data.ent[key].action))))

\* A third AI loop that plans again after the state change it resolved.
AiReplanAgain(game, key) ==
    LET Keep(action) ==
            IF action.typ = "StateChange"
            THEN LET g == ResolveMessages(
                              [GLog(Planned(game, key, 3), MsgAction(key, action)) EXCEPT
                                  !.data.ent[key].action = action])
                 IN  [Planned(g, key, 3) EXCEPT
                         !.data.ent[key].action = AiTakeTurn(g, key)]
            ELSE Planned(game, key, 3)
    IN  Keep(AiTakeTurn(game, key))

\* step_logic, third AI loop, one entity: plan once more; only a state
\* change is kept, and resolved.
AiReplan(game, key) ==
    LET Keep(action) ==
            IF action.typ = "StateChange"
            THEN ResolveMessages(
                     [GLog(Planned(game, key, 3), MsgAction(key, action)) EXCEPT
                         !.data.ent[key].action = action])
            ELSE Planned(game, key, 3)
    IN  Keep(AiTakeTurn(game, key))

\* One of the three loops over ai_id, from its i-th entity on.
RECURSIVE AiLoop(_, _, _, _)
AiLoop(game, ai_id, i, pass) ==
    IF i > Len(ai_id)
    THEN game
    ELSE AiLoop(CASE pass = 1 -> AiPlan(game, ai_id[i])
                  [] pass = 2 -> AiAct(game, ai_id[i])
                  [] pass = 3 -> AiReplan(game, ai_id[i]),
                ai_id, i + 1, pass)

\* step_logic, the AI block.
AiBlock(game) ==
    LET ai_id == AiIds(game)
    IN  AiLoop(AiLoop(AiLoop(game, ai_id, 1, 1), ai_id, 1, 2), ai_id, 1, 3)

\* Status effects that count down without asking whether frozen is positive.
DecrementFrozenAll(data) ==
    [data EXCEPT !.ent = [k \in DOMAIN data.ent |->
        [data.ent[k] EXCEPT !.frozen = @ - 1]]]

\* step_logic, the status effects: a positive frozen goes down by one.
DecrementFrozen(data) ==
    [data EXCEPT !.ent = [k \in DOMAIN data.ent |->
        IF data.ent[k].frozen > 0
        THEN [data.ent[k] EXCEPT !.frozen = @ - 1]
        ELSE data.ent[k]]]

\* A removal that does not wait for the animations to end.
ToRemoveAnimated(data) ==
    { k \in DOMAIN data.ent :
        \/ data.ent[k].count_down.present /\ data.ent[k].count_down.n = 0
        \/ data.ent[k].needs_removal }

\* step_logic, the entities to remove: a count_down at 0, or needs_removal
\* with no animation left.
ToRemove(data) ==
    { k \in DOMAIN data.ent :
        \/ data.ent[k].count_down.present /\ data.ent[k].count_down.n = 0
        \/ data.ent[k].needs_removal /\ data.ent[k].animation = 0 }

\* step_logic, the count down: a positive count_down goes down by one.
CountDown(data) ==
    [data EXCEPT !.ent = [k \in DOMAIN data.ent |->
        IF data.ent[k].count_down.present /\ data.ent[k].count_down.n > 0
        THEN [data.ent[k] EXCEPT !.count_down.n = @ - 1]
        ELSE data.ent[k]]]

\* step_logic, the removal of the entities of to_remove.
RECURSIVE RemoveAll(_, _)
RemoveAll(data, to_remove) ==
    IF to_remove = {}
    THEN data
    ELSE LET key == CHOOSE k \in to_remove : TRUE
         IN  RemoveAll(RemoveEntity(data, key), to_remove \ {key})

\* A bug step_logic could have: every stepped action counts as a turn.
TurnCountAlways(turn_count, player_action) == turn_count + 1

\* step_logic, the turn count: one more when the action takes the turn.
TurnCount(turn_count, player_action) ==
    IF TakesTurn(player_action) THEN turn_count + 1 ELSE turn_count

\* A step_logic whose AI block does not ask whether the player is alive.
StepLogicAiAfterDeath(game, player_action) ==
    LET player_id == FindPlayer(game.data)
        Return(g) == [game |-> g, won |-> LevelExitConditionMet(g.data)]
        EndOfTurn(g) ==
            Return([g EXCEPT
                !.data = RemoveAll(CountDown(DecrementFrozen(@)),
                                   ToRemove(DecrementFrozen(@))),
                !.settings.turn_count = TurnCount(@, player_action)])
        Monsters(g) ==
            IF /\ TakesTurn(player_action)
               /\ ~LevelExitConditionMet(g.data)
            THEN AiBlock(g)
            ELSE g
        AfterPlayer(g) ==
            EndOfTurn(ResolveMessages(GLog(Monsters(g), MsgPlayerTurn)))
    IN  AfterPlayer(ResolveMessages(
            GLog([GClear(game) EXCEPT !.data.ent[player_id].action = player_action],
                 MsgAction(player_id, player_action))))

\* A step_logic whose AI block does not ask whether the action takes the
\* turn.
StepLogicAiAlways(game, player_action) ==
    LET player_id == FindPlayer(game.data)
        Return(g) == [game |-> g, won |-> LevelExitConditionMet(g.data)]
        EndOfTurn(g) ==
            Return([g EXCEPT
                !.data = RemoveAll(CountDown(DecrementFrozen(@)),
                                   ToRemove(DecrementFrozen(@))),
                !.settings.turn_count = TurnCount(@, player_action)])
        Monsters(g) ==
            IF /\ g.data.ent[player_id].alive
               /\ ~LevelExitConditionMet(g.data)
            THEN AiBlock(g)
            ELSE g
        AfterPlayer(g) ==
            EndOfTurn(ResolveMessages(GLog(Monsters(g), MsgPlayerTurn)))
    IN  AfterPlayer(ResolveMessages(
            GLog([GClear(game) EXCEPT !.data.ent[player_id].action = player_action],
                 MsgAction(player_id, player_action))))

\* step_logic: the log is cleared; the player's action is stored, logged and
\* resolved; the AI block runs when the action takes the turn, the player is
\* alive and the level is not won; PlayerTurn is logged and resolved; the
\* status effects, the count down and the removals; the turn count. It
\* returns the game it leaves and whether the level is won.
StepLogic(game, player_action) ==
    LET player_id == FindPlayer(game.data)
        Return(g) == [game |-> g, won |-> LevelExitConditionMet(g.data)]
        EndOfTurn(g) ==
            Return([g EXCEPT
                !.data = RemoveAll(CountDown(DecrementFrozen(@)),
                                   ToRemove(DecrementFrozen(@))),
                !.settings.turn_count = TurnCount(@, player_action)])
        Monsters(g) ==
            IF /\ TakesTurn(player_action)
               /\ g.data.ent[player_id].alive
               /\ ~LevelExitConditionMet(g.data)
            THEN AiBlock(g)
            ELSE g
        AfterPlayer(g) ==
            EndOfTurn(ResolveMessages(GLog(Monsters(g), MsgPlayerTurn)))
    IN  AfterPlayer(ResolveMessages(
            GLog([GClear(game) EXCEPT !.data.ent[player_id].action = player_action],
                 MsgAction(player_id, player_action))))

\* An InputAction: its kind and, for Move, its direction.
InputAction(typ, dir) == [typ |-> typ, dir |-> dir]

InputNone == InputAction("None", "Center")

\* The directions a Move input of the specification carries.
InputDirs == {"Left", "Right", "Up", "Down"}

\* The inputs of the specification.
InputActions ==
    { InputAction(t, "Center") :
        t \in {"None", "Pass", "Pickup", "Inventory", "SkillMenu", "ClassMenu",
               "UseItem", "Exit", "Esc", "SelectItem", "MapClick"} }
    \cup { InputAction("Move", d) : d \in InputDirs }

\* What a step function returns: the game, its GameResult, and the history
\* of the step (the action the input translated to, whether the state
\* translates input, whether step_logic ran and what it returned).
Stepped(game, result, action, translated, ran_logic, won) ==
    [game |-> game, result |-> result, action |-> action,
     translated |-> translated, ran_logic |-> ran_logic, won |-> won]

\* The Move action of the player: the first half of a turn when the move
\* leaves a momentum of magnitude above 1 and the move before was not a
\* first half already.
PlayerMoveAction(game, dir) ==
    LET id == FindPlayer(game.data)
        e == game.data.ent[id]
        m == MoveOutcome(game, id, dir)
        after == Moved(e.momentum, m.pos[1] - e.pos[1], m.pos[2] - e.pos[2])
        half == /\ m.typ = "Move"
                /\ Magnitude(after) > 1
                /\ ~e.momentum.took_half_turn
    IN  Action("Move", dir, IF half THEN "Half" ELSE "Full")

\* actions::handle_input: the input of the Playing state as an action; the
\* menu keys change the state and yield NoAction.
HandleInput(game) ==
    LET input == game.input_action
        to(state) == [game |-> [game EXCEPT !.settings.state = state],
                      action |-> NoAction]
    IN  CASE input.typ = "Move"      -> [game |-> game, action |-> PlayerMoveAction(game, input.dir)]
          [] input.typ = "Pass"      -> [game |-> game, action |-> Action("Pass", None, "Full")]
          [] input.typ = "Pickup"    -> [game |-> game, action |-> Action("Pickup", None, "Full")]
          [] input.typ = "Inventory" -> to("Inventory")
          [] input.typ = "SkillMenu" -> to("SkillMenu")
          [] input.typ = "ClassMenu" -> to("ClassMenu")
          [] input.typ = "UseItem"   -> to("Selection")
          [] input.typ = "Exit"      -> to("ConfirmQuit")
          [] OTHER                   -> [game |-> game, action |-> NoAction]

\* The input of a menu state: Esc leaves the menu, Exit quits, the choice
\* given leaves the menu with the action given, anything else does nothing.
HandleMenu(game, choice, action) ==
    LET input == game.input_action
    IN  CASE input.typ = "Esc" ->
                [game |-> [game EXCEPT !.settings.state = "Playing"], action |-> NoAction]
          [] input.typ = "Exit" ->
                [game |-> [game EXCEPT !.settings.exiting = TRUE], action |-> NoAction]
          [] input.typ = choice ->
                [game |-> [game EXCEPT !.settings.state = "Playing"], action |-> action]
          [] OTHER -> [game |-> game, action |-> NoAction]

\* actions::handle_input_inventory: changes the settings only.
HandleInputInventory(game) == HandleMenu(game, "SelectItem", NoAction).game

\* actions::handle_input_skill_menu: the chosen skill is used, a full turn.
HandleInputSkillMenu(game) ==
    HandleMenu(game, "SelectItem", Action("UseSkill", None, "Full"))

\* actions::handle_input_class_menu: the chosen class is taken, no turn.
HandleInputClassMenu(game) ==
    HandleMenu(game, "SelectItem", Action("ChooseClass", None, "None"))

\* actions::handle_input_selection: the item is used on the tile clicked, a
\* full turn.
HandleInputSelection(game) ==
    HandleMenu(game, "MapClick", Action("UseItem", None, "Full"))

\* actions::handle_input_confirm_quit: Exit confirms, Esc returns to play.
HandleInputConfirmQuit(game) ==
    LET input == game.input_action
    IN  CASE input.typ = "Exit" -> [game EXCEPT !.settings.exiting = TRUE]
          [] input.typ = "Esc"  -> [game EXCEPT !.settings.state = "Playing"]
          [] OTHER -> game

\* The block step_playing, step_selection, step_skill_menu and
\* step_class_menu share: an action other than NoAction runs step_logic, a
\* won level sets the state to Win; then Stop when exiting.
StepAction(h) ==
    LET ran_logic == h.action # NoAction
        Result(g, won) ==
            Stepped(g, IF g.settings.exiting THEN "Stop" ELSE "Continue",
                    h.action, TRUE, ran_logic, won)
        Win(s) ==
            IF s.won
            THEN Result([s.game EXCEPT !.settings.state = "Win"], TRUE)
            ELSE Result(s.game, FALSE)
    IN  IF ran_logic
        THEN Win(StepLogic(h.game, h.action))
        ELSE Result(h.game, FALSE)

\* Game::step_playing
StepPlaying(game) == StepAction(HandleInput(game))

\* Game::step_selection
StepSelection(game) == StepAction(HandleInputSelection(game))

\* Game::step_skill_menu
StepSkillMenu(game) == StepAction(HandleInputSkillMenu(game))

\* Game::step_class_menu
StepClassMenu(game) == StepAction(HandleInputClassMenu(game))

\* A step_inventory that takes the chosen item as the action of a turn.
StepInventoryTurns(game) ==
    StepAction(HandleMenu(game, "SelectItem", Action("UseItem", None, "Full")))

\* Game::step_inventory
StepInventory(game) ==
    LET Result(g) ==
            Stepped(g, IF g.settings.exiting THEN "Stop" ELSE "Continue",
                    NoAction, FALSE, FALSE, FALSE)
    IN  Result(HandleInputInventory(game))

\* Game::step_confirm_quit
StepConfirmQuit(game) ==
    LET Result(g) ==
            Stepped(g, IF g.settings.exiting THEN "Stop" ELSE "Continue",
                    NoAction, FALSE, FALSE, FALSE)
    IN  Result(HandleInputConfirmQuit(game))

\* A bug step_lose could have: any input but Exit starting the game again.
StepLoseResumes(game) ==
    IF game.input_action.typ = "Exit"
    THEN Stepped(game, "Stop", NoAction, FALSE, FALSE, FALSE)
    ELSE Stepped([game EXCEPT !.settings.state = "Playing"], "Continue",
                 NoAction, FALSE, FALSE, FALSE)

\* Game::step_lose
StepLose(game) ==
    Stepped(game, IF game.input_action.typ = "Exit" THEN "Stop" ELSE "Continue",
            NoAction, FALSE, FALSE, FALSE)

\* The next free entity id of the store.
NextId(data) ==
    IF DOMAIN data.ent = {} THEN 1
    ELSE 1 + CHOOSE k \in DOMAIN data.ent : \A j \in DOMAIN data.ent : j <= k

\* An entity factory: the entity enters the store and SpawnedObject is
\* logged.
Spawn(game, e) ==
    LET id == NextId(game.data)
    IN  GLog([game EXCEPT !.data = AddEntity(@, id, e)], MsgSpawnedObject(id))

\* make_player: a blocking fighter with the default momentum.
MakePlayerEntity(pos) ==
    [EntityNew("player", pos, "@", TRUE) EXCEPT
        !.fighter = Fighter(MaxHp, MaxHp, 0, 1, "Player")]

\* make_stone: an item.
MakeStoneEntity(pos) ==
    [EntityNew("stone", pos, "o", FALSE) EXCEPT !.item = "Stone"]

\* The exit of a level.
MakeExit(pos) == EntityNew("exit", pos, ">", FALSE)

\* The goal item of a level.
MakeKey(pos) == [EntityNew("key", pos, "k", FALSE) EXCEPT !.item = "Goal"]

\* make_gol: a blocking fighter with an ai, frozen for some turns.
MakeGol(pos, frozen) ==
    [EntityNew("gol", pos, "g", TRUE) EXCEPT
        !.fighter = Fighter(1, 1, 0, 1, "Monster"),
        !.ai = "Basic",
        !.frozen = frozen]

\* An effect that lasts some turns: an entity with a count_down.
MakeParticle(pos, count) ==
    [EntityNew("particle", pos, "*", FALSE) EXCEPT !.count_down = SomeCount(count)]

\* The longest a gol of a level stays frozen, and a particle stays.
MaxFrozen == 1
MaxCountDown == 1

\* The levels make_map builds: with or without an exit, the gol frozen or
\* not.
Layouts == [exit : BOOLEAN, frozen : {0, MaxFrozen}]

\* make_map: the player and what it holds stay, the player at (0, 0); the
\* level's entities are made anew on a map without walls, with one use of
\* the generator.
MakeMap(game, layout) ==
    LET old == game.data
        player_id == FindPlayer(old)
        kept == {player_id} \cup Range(old.ent[player_id].inventory)
        base == [ids |-> SelectSeq(old.ids, LAMBDA k : k \in kept),
                 ent |-> [k \in kept |->
                            IF k = player_id
                            THEN [old.ent[k] EXCEPT !.pos = <<0, 0>>]
                            ELSE old.ent[k]]]
        g0 == [game EXCEPT !.data = base,
                           !.map = MapOf(MapWidth, MapHeight, {}, {}, {}),
                           !.rng = Draw(@)]
        g1 == IF layout.exit THEN Spawn(g0, MakeExit(<<MapWidth - 1, 0>>)) ELSE g0
        g2 == Spawn(g1, MakeKey(<<1, 0>>))
        g3 == Spawn(g2, MakeGol(<<MapWidth - 1, MapHeight - 1>>, layout.frozen))
    IN  Spawn(g3, MakeParticle(<<0, MapHeight - 1>>, MaxCountDown))

\* make_map for MapLoadConfig::Empty: the player and what it holds stay, the
\* player at (0, 0), on a map without walls and without other entities.
MakeEmptyMap(game) ==
    LET old == game.data
        player_id == FindPlayer(old)
        kept == {player_id} \cup Range(old.ent[player_id].inventory)
    IN  [game EXCEPT
            !.data = [ids |-> SelectSeq(old.ids, LAMBDA k : k \in kept),
                      ent |-> [k \in kept |->
                                 IF k = player_id
                                 THEN [old.ent[k] EXCEPT !.pos = <<0, 0>>]
                                 ELSE old.ent[k]]],
            !.map = MapOf(MapWidth, MapHeight, {}, {}, {})]

\* Game::new: the player and a stone in its inventory, both off the map;
\* Playing, turn 0, an empty map.
GameNew ==
    LET g0 == [settings |-> GameSettingsNew(0, FALSE), data |-> EntitiesNew,
               map |-> NoMap, msg_log |-> MsgLogNew, input_action |-> InputNone,
               rng |-> SeedFromU64(Seed), logged |-> <<>>, plans |-> <<>>,
               acts |-> <<>>]
        g1 == Spawn(g0, MakePlayerEntity(NoPos))
        player_id == FindPlayer(g1.data)
        g2 == Spawn(g1, MakeStoneEntity(NoPos))
        stone_id == FindByName(g2.data, "stone")
    IN  [g2 EXCEPT !.data.ent[player_id].inventory = Append(@, stone_id)]

\* A step_win that seeds the generator again before the level is made.
StepWinReseeds(game, layout) ==
    LET player_id == FindPlayer(game.data)
        key_id == IsInInventory(game.data, player_id, "Goal")
        Level(g) ==
            MakeMap([g EXCEPT !.data = RemoveItem(@, player_id, key_id),
                              !.settings.state = "Playing",
                              !.settings.level_num = @ + 1,
                              !.rng = SeedFromU64(Seed)], layout)
    IN  IF game.input_action.typ = "Exit"
        THEN Stepped(game, "Stop", NoAction, FALSE, FALSE, FALSE)
        ELSE IF key_id = NoId
        THEN Stepped(GLog(game, MsgChangeLevel), "Panic", NoAction, FALSE, FALSE, FALSE)
        ELSE Stepped(Level(GLog(game, MsgChangeLevel)), "Continue",
                     NoAction, FALSE, FALSE, FALSE)

\* A step_win that forgets the level number.
StepWinKeepsLevel(game, layout) ==
    LET player_id == FindPlayer(game.data)
        key_id == IsInInventory(game.data, player_id, "Goal")
        Level(g) ==
            MakeMap([g EXCEPT !.data = RemoveItem(@, player_id, key_id),
                              !.settings.state = "Playing"], layout)
    IN  IF game.input_action.typ = "Exit"
        THEN Stepped(game, "Stop", NoAction, FALSE, FALSE, FALSE)
        ELSE IF key_id = NoId
        THEN Stepped(GLog(game, MsgChangeLevel), "Panic", NoAction, FALSE, FALSE, FALSE)
        ELSE Stepped(Level(GLog(game, MsgChangeLevel)), "Continue",
                     NoAction, FALSE, FALSE, FALSE)

\* Game::step_win: Exit stops; else ChangeLevel is logged, the goal leaves
\* the inventory (a panic without one), the state is Playing again, the
\* level number goes up and the next map is made.
StepWin(game, layout) ==
    LET player_id == FindPlayer(game.data)
        key_id == IsInInventory(game.data, player_id, "Goal")
        Level(g) ==
            MakeMap([g EXCEPT !.data = RemoveItem(@, player_id, key_id),
                              !.settings.state = "Playing",
                              !.settings.level_num = @ + 1], layout)
    IN  IF game.input_action.typ = "Exit"
        THEN Stepped(game, "Stop", NoAction, FALSE, FALSE, FALSE)
        ELSE IF key_id = NoId
        THEN Stepped(GLog(game, MsgChangeLevel), "Panic", NoAction, FALSE, FALSE, FALSE)
        ELSE Stepped(Level(GLog(game, MsgChangeLevel)), "Continue",
                     NoAction, FALSE, FALSE, FALSE)

\* Game::step_game, the loop at its end: the log is popped until it is empty.
\* A line of msg_line: the words of the text, none for the empty string;
\* panics when the call does not return.
TextLine(words) == [panics |-> FALSE, words |-> words]

MsgLinePanic == [panics |-> TRUE, words |-> <<>>]

\* entities.name[id] inside a format: the name, no line when the id is not
\* in the store.
MsgLineNamed(data, names, words) ==
    IF \A i \in DOMAIN names : names[i] \in DOMAIN data.ent
    THEN TextLine([i \in DOMAIN names |-> data.ent[names[i]].name] \o words)
    ELSE MsgLinePanic

\* Msg::msg_line
MsgLine(msg, data) ==
    CASE msg.typ = "PlayerDeath"   -> TextLine(<<"Player died!">>)
      [] msg.typ = "PickedUp"      -> MsgLineNamed(data, <<msg.id, msg.other>>, <<"picked up a">>)
      [] msg.typ = "Attack"        -> MsgLineNamed(data, <<msg.id, msg.other>>, <<"attacked for damage">>)
      [] msg.typ = "Killed"        -> TextLine(<<"Killed">>)
      [] msg.typ = "Moved"         -> MsgLineNamed(data, <<msg.id>>, <<"moved">>)
      [] msg.typ = "StateChange"   -> TextLine(<<"Changed state to", msg.action.typ>>)
      [] msg.typ = "GameState"     ->
             CASE msg.action.arg = "Inventory" -> TextLine(<<"Opened Inventory">>)
               [] msg.action.arg = "Playing"   -> TextLine(<<"Closed Inventory">>)
               [] msg.action.arg = "Throwing"  -> TextLine(<<"Throwing item">>)
               [] OTHER                        -> MsgLinePanic
      [] msg.typ = "SpikeTrapTriggered" -> TextLine(<<"Spike trap triggered">>)
      [] msg.typ = "SpawnedObject" -> TextLine(<<>>)
      [] msg.typ = "ChangeLevel"   -> TextLine(<<>>)
      [] OTHER                     -> TextLine(<<>>)

\* Game::step_game, the loop at its end: the log is popped until it is empty
\* and msg_line is called on each message; a panic of msg_line ends the loop
\* with the message popped.
RECURSIVE Drain(_, _)
Drain(l, data) ==
    IF PopValue(l) = NoMsg THEN [log |-> l, panicked |-> FALSE]
    ELSE IF MsgLine(PopValue(l), data).panics
    THEN [log |-> PopRest(l), panicked |-> TRUE]
    ELSE Drain(PopRest(l), data)

\* Game::step_game, after the step function of the state returned r: the
\* drain (none after a panic) and the result.
Drained(r) ==
    IF r.result = "Panic" THEN r
    ELSE LET d == Drain(r.game.msg_log, r.game.data)
         IN  [r EXCEPT !.game.msg_log = d.log,
                       !.result = IF d.panicked THEN "Panic" ELSE @]

----------------------------------------------------------------------------
(* Spec: the turn stepper on a small level.                                *)

\* The turns and the levels one run of Spec may reach.
MaxTurns == 2
MaxLevels == 1

\* What last_step holds before the first step.
LastStepInit ==
    [input |-> InputNone, state |-> "Playing", action |-> NoAction,
     translated |-> FALSE, ran_logic |-> FALSE, won |-> FALSE,
     result |-> "Continue", logged |-> <<>>, plans |-> <<>>,
     acts |-> <<>>]

\* The game after Game::new and make_map.
InitGame ==
    \E layout \in Layouts :
        LET game == MakeMap(GameNew, layout)
        IN  /\ settings = game.settings
            /\ entities = game.data
            /\ map = game.map
            /\ msg_log = game.msg_log
            /\ rng = game.rng
            /\ last_step = LastStepInit

\* The game value of the state, with the input given.
Game(input) ==
    [settings |-> settings, data |-> entities, map |-> map, msg_log |-> msg_log,
     input_action |-> input, rng |-> rng, logged |-> <<>>, plans |-> <<>>,
     acts |-> <<>>]

\* One call of step_game, with the input given and r what the step function
\* of the state returns; no call after a Stop or a panic, and none that
\* takes the turn count above max_turns.
StepGameWithin(input, r, max_turns) ==
    /\ last_step.result = "Continue"
    /\ \E d \in {Drained(r)} :
           /\ d.game.settings.turn_count <= max_turns
           /\ d.game.settings.level_num <= MaxLevels
           /\ settings' = d.game.settings
           /\ entities' = d.game.data
           /\ map' = d.game.map
           /\ msg_log' = d.game.msg_log
           /\ rng' = d.game.rng
           /\ last_step' =
                  [input |-> input, state |-> settings.state, action |-> d.action,
                   translated |-> d.translated, ran_logic |-> d.ran_logic,
                   won |-> d.won, result |-> d.result,
                   logged |-> d.game.logged, plans |-> d.game.plans,
                   acts |-> d.game.acts]
    /\ UNCHANGED <<log_hist, momentum, mom_op, objects, last_move, io, key_input>>

StepGame(input, r) == StepGameWithin(input, r, MaxTurns)

\* step_game, by the state it dispatches on.
StepGamePlaying ==
    /\ settings.state = "Playing"
    /\ \E input \in InputActions : StepGame(input, StepPlaying(Game(input)))

StepGameWin ==
    /\ settings.state = "Win"
    /\ \E input \in InputActions, layout \in Layouts :
           StepGame(input, StepWin(Game(input), layout))

StepGameLose ==
    /\ settings.state = "Lose"
    /\ \E input \in InputActions : StepGame(input, StepLose(Game(input)))

StepGameInventory ==
    /\ settings.state = "Inventory"
    /\ \E input \in InputActions : StepGame(input, StepInventory(Game(input)))

StepGameSelection ==
    /\ settings.state = "Selection"
    /\ \E input \in InputActions : StepGame(input, StepSelection(Game(input)))

StepGameSkillMenu ==
    /\ settings.state = "SkillMenu"
    /\ \E input \in InputActions : StepGame(input, StepSkillMenu(Game(input)))

StepGameClassMenu ==
    /\ settings.state = "ClassMenu"
    /\ \E input \in InputActions : StepGame(input, StepClassMenu(Game(input)))

StepGameConfirmQuit ==
    /\ settings.state = "ConfirmQuit"
    /\ \E input \in InputActions : StepGame(input, StepConfirmQuit(Game(input)))

----------------------------------------------------------------------------
(* SpecEmpty: the turn stepper on the empty level of test_game_step.       *)

\* The turns one run of SpecEmpty may reach.
MaxEmptyTurns == 4

\* The inputs of test_game_step, and no input.
EmptyInputs == {InputNone} \cup { InputAction("Move", d) : d \in InputDirs }

\* The game after Game::new and make_map for MapLoadConfig::Empty.
InitEmpty ==
    LET game == MakeEmptyMap(GameNew)
    IN  /\ settings = game.settings
        /\ entities = game.data
        /\ map = game.map
        /\ msg_log = game.msg_log
        /\ rng = game.rng
        /\ last_step = LastStepInit

\* step_game on the empty level: the state stays Playing.
StepGameEmpty ==
    /\ settings.state = "Playing"
    /\ \E input \in EmptyInputs :
           StepGameWithin(input, StepPlaying(Game(input)), MaxEmptyTurns)

----------------------------------------------------------------------------
(* SpecWin: step_win on the games a step_game call can find in Win.        *)

\* A game in Win: the level with an exit, the player on the exit tile, with
\* the key of the level in its inventory or without it, after some turns,
\* in god mode or not; the main log is drained.
WonLevel(layout, god_mode, turns, holds) ==
    LET g0 == MakeMap(GameNew, layout)
        player_id == FindPlayer(g0.data)
        key_id == FindByName(g0.data, "key")
        g1 == [g0 EXCEPT !.data.ent[player_id].pos = g0.data.ent[FindExit(g0.data)].pos,
                         !.settings.state = "Win",
                         !.settings.god_mode = god_mode,
                         !.settings.turn_count = turns,
                         !.msg_log = Drain(@, g0.data).log]
    IN  IF holds THEN ResolvePickedUp(g1, player_id, key_id) ELSE g1

\* The games in Win step_win is run on.
InitWin ==
    \E layout \in {l \in Layouts : l.exit}, god_mode \in BOOLEAN,
       turns \in 0..MaxTurns, holds \in BOOLEAN :
        LET game == WonLevel(layout, god_mode, turns, holds)
        IN  /\ settings = game.settings
            /\ entities = game.data
            /\ map = game.map
            /\ msg_log = game.msg_log
            /\ rng = game.rng
            /\ last_step = LastStepInit

----------------------------------------------------------------------------
(* SpecDrain: step_game with messages left in the log for its drain.       *)

\* The messages one log of SpecDrain may hold.
MaxPending == 2

\* The states a GameState message carries: those step_game dispatches on and
\* those msg_line names.
MsgGameStates ==
    {"Playing", "Win", "Lose", "Inventory", "Selection", "SkillMenu",
     "ClassMenu", "ConfirmQuit", "Throwing"}

\* The messages left for the drain.
PendingMsgs ==
    { MsgGameState(s) : s \in MsgGameStates } \cup {MsgChangeLevel, MsgPlayerDeath}

\* The log with the messages of pending logged in order.
RECURSIVE LogAll(_, _)
LogAll(l, pending) ==
    IF pending = <<>> THEN l ELSE LogAll(Log(l, Head(pending)), Tail(pending))

\* The game after Game::new and make_map, with messages logged and not yet
\* popped.
InitPending ==
    \E n \in 0..MaxPending :
        \E pending \in [1..n -> PendingMsgs] :
            LET game == MakeMap(GameNew, [exit |-> FALSE, frozen |-> 0])
            IN  /\ settings = game.settings
                /\ entities = game.data
                /\ map = game.map
                /\ msg_log = LogAll(game.msg_log, pending)
                /\ rng = game.rng
                /\ last_step = LastStepInit

\* step_game in Playing, without input or with a passed turn.
StepGamePending ==
    /\ settings.state = "Playing"
    /\ \E input \in {InputNone, InputAction("Pass", "Center")} :
           StepGame(input, StepPlaying(Game(input)))

----------------------------------------------------------------------------
(* SpecReach: the calls of Reach.                                          *)

\* The largest distance of a Reach of SpecReach.
MaxDist == 3

\* The Reach values: a usize distance, 0 included.
Reaches == { Reach(kind, dist) : kind \in {"Single", "Diag", "Horiz"}, dist \in 0..MaxDist }

\* reach.move_with_reach(&move_action)
MoveWithReachOp ==
    /\ \E reach \in Reaches, move_action \in MoveActions :
           last_move' = [op |-> "move_with_reach", reach |-> reach,
                         move_action |-> move_action,
                         ret |-> MoveWithReach(reach, move_action)]
    /\ UNCHANGED <<msg_log, log_hist, momentum, mom_op, objects, map,
                   settings, entities, rng, last_step, io, key_input>>

\* reach.offsets()
OffsetsOp ==
    /\ \E reach \in Reaches :
           last_move' = [op |-> "offsets", reach |-> reach, ret |-> Offsets(reach)]
    /\ UNCHANGED <<msg_log, log_hist, momentum, mom_op, objects, map,
                   settings, entities, rng, last_step, io, key_input>>

----------------------------------------------------------------------------
(* SpecTurn: one turn of the stepper on a level with two monsters, a spike *)
(* trap and an effect that waits for its removal.                          *)

\* The turns one run of SpecTurn may reach.
MaxTurnsOfLevel == 1

\* What a monster of the level is: a gol that is idle or attacking; a gol
\* without an ai, in limbo or without a fighter; the corpse Killed leaves.
MonsterKinds == {"Idle", "Attacking", "NoAi", "Limbo", "NoFighter", "Corpse"}

\* make_gol, and the attributes the kind changes.
MakeGolOf(pos, kind) ==
    LET gol == MakeGol(pos, 0)
    IN  CASE kind = "Idle"      -> gol
          [] kind = "Attacking" -> [gol EXCEPT !.behavior = "Attacking"]
          [] kind = "NoAi"      -> [gol EXCEPT !.ai = None]
          [] kind = "Limbo"     -> [gol EXCEPT !.limbo = TRUE]
          [] kind = "NoFighter" -> [gol EXCEPT !.fighter = NoFighter]
          [] kind = "Corpse"    -> [gol EXCEPT !.alive = FALSE, !.blocks = FALSE,
                                               !.chr = "%", !.ai = None]

\* A spike trap.
MakeSpikes(pos) == EntityNew("spike", pos, "^", FALSE)

\* An effect: its count_down if it has one, whether it waits for removal,
\* and the animations it still plays.
MakeEffect(pos, count_down, needs_removal, animation) ==
    [EntityNew("particle", pos, "*", FALSE) EXCEPT
        !.count_down = count_down,
        !.needs_removal = needs_removal,
        !.animation = animation]

\* The levels of SpecTurn.
TurnLayouts ==
    [a : MonsterKinds, b : {"Idle", "Attacking", "Limbo"},
     count_down : {NoCount} \cup { SomeCount(n) : n \in 0..MaxCountDown },
     needs_removal : BOOLEAN, animation : 0..1,
     holds : BOOLEAN, hp : 1..MaxHp]

\* The level: the player at (0, 0) with the hp given, holding the key of the
\* level or not; the exit to its right and spikes below it; two monsters in
\* the bottom row and an effect in the far corner.
MakeTurnLevel(game, layout) ==
    LET g0 == MakeEmptyMap(game)
        player_id == FindPlayer(g0.data)
        g1 == Spawn([g0 EXCEPT !.data.ent[player_id].fighter.hp = layout.hp],
                    MakeExit(<<1, 0>>))
        g2 == Spawn(g1, MakeKey(<<MapWidth - 1, 0>>))
        g3 == Spawn(g2, MakeSpikes(<<0, MapHeight - 1>>))
        g4 == Spawn(g3, MakeGolOf(<<1, MapHeight - 1>>, layout.a))
        g5 == Spawn(g4, MakeGolOf(<<MapWidth - 1, MapHeight - 1>>, layout.b))
        g6 == Spawn(g5, MakeEffect(<<MapWidth - 1, 0>>, layout.count_down,
                                   layout.needs_removal, layout.animation))
    IN  IF layout.holds
        THEN ResolvePickedUp(g6, player_id, FindByName(g6.data, "key"))
        ELSE g6

\* The game after Game::new and the level.
InitTurn ==
    \E layout \in TurnLayouts :
        LET game == MakeTurnLevel(GameNew, layout)
        IN  /\ settings = game.settings
            /\ entities = game.data
            /\ map = game.map
            /\ msg_log = game.msg_log
            /\ rng = game.rng
            /\ last_step = LastStepInit

\* The inputs of SpecTurn.
TurnInputs ==
    {InputNone, InputAction("Pass", "Center")}
    \cup { InputAction("Move", d) : d \in InputDirs }

\* step_game in Playing.
StepGameTurn ==
    /\ settings.state = "Playing"
    /\ \E input \in TurnInputs :
           StepGameWithin(input, StepPlaying(Game(input)), MaxTurnsOfLevel)

----------------------------------------------------------------------------
(* The command reader and the game loop: main.rs.                          *)

\* The most lines stdin holds.
MaxLines == 3

\* A line of stdin: its place on stdin, and whether it is empty, parses as
\* a GameCmd ("cmd") or does not ("junk").
Lines(n) == [n : {n}, text : {"", "cmd", "junk"}]

\* What stdin may hold: up to MaxLines lines.
Stdins ==
    UNION { { s \in [1..len -> UNION { Lines(n) : n \in 1..MaxLines }] :
                \A i \in 1..len : s[i].n = i } : len \in 0..MaxLines }

\* msg.parse::<GameCmd>() is Ok.
Parses(line) == line.text = "cmd"

\* The lines of stdin not yet read, the channel between the reader thread
\* and the game loop, what the loop executed and what it reported, whether
\* the loop runs, and the lines sent and received so far.
IoNew(stdin) ==
    [stdin |-> stdin, channel |-> <<>>, executed |-> <<>>, output |-> <<>>,
     running |-> TRUE, sent |-> <<>>, taken |-> <<>>]

\* A bug process_commands could have: executing every pending line in one
\* frame.
ProcessCommandsAll(s) ==
    [s EXCEPT !.channel = <<>>,
              !.taken = @ \o s.channel,
              !.executed = @ \o SelectSeq(s.channel, Parses),
              !.output = @ \o SelectSeq(s.channel, LAMBDA l : ~Parses(l))]

\* process_commands: recv_timeout(0) takes the first pending line, if any;
\* a line that parses is executed, any other is reported.
ProcessCommands(s) ==
    IF s.channel = <<>>
    THEN s
    ELSE LET msg == Head(s.channel)
             received == [s EXCEPT !.channel = Tail(@), !.taken = Append(@, msg)]
         IN  IF Parses(msg)
             THEN [received EXCEPT !.executed = Append(@, msg)]
             ELSE [received EXCEPT !.output = Append(@, msg)]

\* The reader thread, one turn of its loop: the next line of stdin is sent
\* unless it is empty.
ReaderStep ==
    /\ io.stdin # <<>>
    /\ LET text == Head(io.stdin)
       IN  io' = IF text.text # ""
                 THEN [io EXCEPT !.stdin = Tail(@),
                                 !.channel = Append(@, text),
                                 !.sent = Append(@, text)]
                 ELSE [io EXCEPT !.stdin = Tail(@)]
    /\ UNCHANGED <<msg_log, log_hist, momentum, mom_op, objects, map, last_move,
                   settings, entities, rng, last_step, key_input>>

\* game_loop, one frame: the commands, then the step of the game, which may
\* leave the game in the Exit state and end the loop.
Frame ==
    /\ io.running
    /\ \E exit \in BOOLEAN :
          io' = [ProcessCommands(io) EXCEPT !.running = ~exit]
    /\ UNCHANGED <<msg_log, log_hist, momentum, mom_op, objects, map, last_move,
                   settings, entities, rng, last_step, key_input>>

InitCommands == \E stdin \in Stdins : io = IoNew(stdin)

----------------------------------------------------------------------------
(* Input: input.rs. Time is counted in ticks; repeat_delay is a number of   *)
(* ticks. Ctrl, Shift and Alt events are not followed: the three flags      *)
(* keep the values of Input::new.                                           *)

\* The last tick of a run of SpecInput.
MaxTime == 4

\* config.repeat_delay, in ticks.
RepeatDelay == 2

\* The most keys held down at once.
MaxPressed == 2

\* The keys of SpecInput: a direction, the overlay, the first item key and
\* the cursor key.
Chars == {"4", "o", "z", " "}

\* Option<HeldState>::None, and HeldState::new.
NoHeldState == [present |-> FALSE, down_time |-> 0, repetitions |-> 0]
HeldState(down_time, repetitions) ==
    [present |-> TRUE, down_time |-> down_time, repetitions |-> repetitions]

\* HeldState::repeated
Repeated(held_state) == HeldState(held_state.down_time, held_state.repetitions + 1)

\* Option<Target>::None and Target::Item(index)
NoTarget == [kind |-> "None", index |-> 0]
TargetItem(index) == [kind |-> "Item", index |-> index]

\* Input::new
InputNew ==
    [ctrl |-> FALSE, alt |-> FALSE, shift |-> FALSE, target |-> NoTarget,
     cursor |-> FALSE, char_held |-> [c \in Chars |-> NoHeldState]]

\* Input::is_held
IsHeld(inp, chr) == inp.char_held[chr].present /\ inp.char_held[chr].repetitions > 0

\* What a handler returns: the Input it leaves and its InputAction.
Handled(inp, action) == [input |-> inp, action |-> action]

\* from_digit
FromDigit(chr) == IF chr = "4" THEN "Left" ELSE "None"

\* alpha_up_to_action
AlphaUpToAction(chr) ==
    IF chr = "o" THEN InputAction("OverlayOff", "Center") ELSE InputNone

\* Input::key_to_action
KeyToAction(inp, chr, is_menu) ==
    IF chr = "4"
    THEN IF is_menu THEN Handled(inp, InputAction("SelectItem", "Center"))
         ELSE IF inp.cursor THEN Handled(inp, InputAction("CursorMove", FromDigit(chr)))
         ELSE IF inp.alt THEN Handled(inp, InputAction("Interact", FromDigit(chr)))
         ELSE IF inp.target.kind = "Item"
              THEN Handled([inp EXCEPT !.target = NoTarget],
                           InputAction("UseItem", FromDigit(chr)))
         ELSE Handled(inp, InputAction("Move", FromDigit(chr)))
    ELSE IF chr = " " THEN Handled(inp, InputNone)
    ELSE Handled(inp, AlphaUpToAction(chr))

\* Input::use_item
UseItem(inp, item_index) ==
    IF inp.cursor
    THEN Handled([inp EXCEPT !.target = NoTarget],
                 InputAction("CursorApplyItem", "Center"))
    ELSE Handled(inp, InputNone)

\* A bug handle_char_up could have: the key's action also after repeats.
HandleCharUpAlways(inp, chr, is_menu) ==
    LET removed == [inp EXCEPT !.char_held[chr] = NoHeldState]
    IN  IF chr = "z" THEN UseItem(removed, 0) ELSE KeyToAction(removed, chr, is_menu)

\* Input::handle_char_up: nothing for a key that repeated; otherwise the key
\* leaves char_held and gives its action.
HandleCharUp(inp, chr, is_menu) ==
    IF IsHeld(inp, chr)
    THEN Handled(inp, InputNone)
    ELSE LET removed == [inp EXCEPT !.char_held[chr] = NoHeldState]
         IN  IF chr = "z" THEN UseItem(removed, 0) ELSE KeyToAction(removed, chr, is_menu)

\* Input::handle_char_down
HandleCharDown(inp, chr) ==
    LET toggled == IF chr = " " THEN [inp EXCEPT !.cursor = ~@] ELSE inp
        targeted == IF chr = "z" THEN [toggled EXCEPT !.target = TargetItem(0)]
                    ELSE toggled
        action == IF chr = " " THEN InputAction("CursorToggle", "Center")
                  ELSE IF chr = "o" THEN InputAction("OverlayOn", "Center")
                  ELSE InputNone
    IN  Handled(targeted, action)

\* The actions a held key does not repeat.
NotRepeated ==
    {"OverlayOff", "Inventory", "SkillMenu", "Exit", "CursorToggle", "ClassMenu"}

\* A bug handle_char_held could have: a repeat that is not counted.
HandleCharHeldUncounted(inp, chr, time, is_menu) ==
    LET held_state == inp.char_held[chr]
        new_repeats == (time - held_state.down_time) \div RepeatDelay
        r == KeyToAction(inp, chr, is_menu)
    IN  IF held_state.present /\ new_repeats > held_state.repetitions
        THEN IF r.action.typ \in NotRepeated
             THEN Handled(r.input, InputNone)
             ELSE r
        ELSE Handled(inp, InputNone)

\* Input::handle_char_held: once the time since the key went down holds more
\* repeat delays than the repetitions counted, the key's action is repeated
\* and counted, unless it is one of the actions that are not repeated.
HandleCharHeld(inp, chr, time, is_menu) ==
    LET held_state == inp.char_held[chr]
        new_repeats == (time - held_state.down_time) \div RepeatDelay
        r == KeyToAction(inp, chr, is_menu)
    IN  IF held_state.present /\ new_repeats > held_state.repetitions
        THEN IF r.action.typ \in NotRepeated
             THEN Handled(r.input, InputNone)
             ELSE Handled([r.input EXCEPT !.char_held[chr] = Repeated(held_state)],
                          r.action)
        ELSE Handled(inp, InputNone)

\* Input::handle_event for InputEvent::Char(chr, dir): a key that goes down
\* enters char_held with no repetitions; then handle_char.
HandleEvent(inp, chr, dir, time, is_menu) ==
    CASE dir = "Down" ->
           HandleCharDown([inp EXCEPT !.char_held[chr] = HeldState(time, 0)], chr)
      [] dir = "Held" -> HandleCharHeld(inp, chr, time, is_menu)
      [] dir = "Up" -> HandleCharUp(inp, chr, is_menu)

\* The Input of the game, the time of the frame, the keys that are down, the
\* repeat actions each key produced since it went down, and the last event
\* with the action it gave.
KeyInputInit ==
    [input |-> InputNew, time |-> 0, pressed |-> {},
     repeats |-> [c \in Chars |-> 0],
     last |-> [chr |-> "", dir |-> "None", action |-> InputNone]]

\* A frame passes.
TickOp ==
    /\ key_input.time < MaxTime
    /\ key_input' = [key_input EXCEPT !.time = @ + 1]
    /\ UNCHANGED <<msg_log, log_hist, momentum, mom_op, objects, map, last_move,
                   settings, entities, rng, last_step, io>>

\* A key goes down.
CharDownOp ==
    /\ \E chr \in Chars \ key_input.pressed, is_menu \in BOOLEAN :
        /\ Cardinality(key_input.pressed) < MaxPressed
        /\ LET r == HandleEvent(key_input.input, chr, "Down", key_input.time, is_menu)
           IN  key_input' = [key_input EXCEPT
                                !.input = r.input,
                                !.pressed = @ \cup {chr},
                                !.repeats[chr] = 0,
                                !.last = [chr |-> chr, dir |-> "Down", action |-> r.action]]
    /\ UNCHANGED <<msg_log, log_hist, momentum, mom_op, objects, map, last_move,
                   settings, entities, rng, last_step, io>>

\* A key that is down reports that it is held.
CharHeldOp ==
    /\ \E chr \in key_input.pressed, is_menu \in BOOLEAN :
        LET r == HandleEvent(key_input.input, chr, "Held", key_input.time, is_menu)
        IN  key_input' = [key_input EXCEPT
                             !.input = r.input,
                             !.repeats[chr] = IF r.action = InputNone THEN @ ELSE @ + 1,
                             !.last = [chr |-> chr, dir |-> "Held", action |-> r.action]]
    /\ UNCHANGED <<msg_log, log_hist, momentum, mom_op, objects, map, last_move,
                   settings, entities, rng, last_step, io>>

\* A key that is down goes up.
CharUpOp ==
    /\ \E chr \in key_input.pressed, is_menu \in BOOLEAN :
        LET r == HandleEvent(key_input.input, chr, "Up", key_input.time, is_menu)
        IN  key_input' = [key_input EXCEPT
                             !.input = r.input,
                             !.pressed = @ \ {chr},
                             !.last = [chr |-> chr, dir |-> "Up", action |-> r.action]]
    /\ UNCHANGED <<msg_log, log_hist, momentum, mom_op, objects, map, last_move,
                   settings, entities, rng, last_step, io>>

----------------------------------------------------------------------------
(* The specifications.                                                     *)

IdleLog == msg_log = MsgLogNew /\ log_hist = LogHistInit
IdleMomentum == momentum = MomentumDefault /\ mom_op = MomOpInit

IdleObjects == objects = <<>> /\ map = NoMap /\ last_move = LastMoveInit
IdleInput == io = IoNew(<<>>) /\ key_input = KeyInputInit
IdleGame ==
    /\ settings = GameSettingsNew(0, FALSE)
    /\ entities = EntitiesNew
    /\ rng = SeedFromU64(Seed)
    /\ last_step = LastStepInit

NextLog == LogOp \/ LogFrontOp \/ PopOp \/ ClearOp

InitSpecLog == InitLog /\ IdleMomentum /\ IdleInput /\ IdleObjects /\ IdleGame

SpecLog == InitSpecLog /\ [][NextLog]_vars

NextMomentum == MomentumMoved \/ MomentumSet \/ MomentumClear

InitSpecMomentum == InitMomentum /\ IdleInput /\ IdleLog /\ IdleObjects /\ IdleGame

SpecMomentum == InitSpecMomentum /\ [][NextMomentum]_vars

NextFight == TakeDamageOp \/ AttackOp \/ HealOp

InitSpecFight == InitFight /\ map = NoMap /\ IdleLog /\ IdleMomentum /\ IdleInput /\ IdleGame

SpecFight == InitSpecFight /\ [][NextFight]_vars

NextMove == PlayerMove \/ EntityMove

InitSpecMove == InitMove /\ IdleLog /\ IdleMomentum /\ IdleInput /\ IdleGame

SpecMove == InitSpecMove /\ [][NextMove]_vars

NextResolve == PlayerMoveOrAttackOp \/ CheckCollisionOp \/ CollideOp \/ WallKickOp

InitSpecResolve == InitResolve /\ IdleLog /\ IdleMomentum /\ IdleInput /\ IdleGame

SpecResolve == InitSpecResolve /\ [][NextResolve]_vars

NextCommands == ReaderStep \/ Frame

InitSpecCommands ==
    /\ InitCommands
    /\ key_input = KeyInputInit
    /\ IdleLog /\ IdleMomentum /\ IdleObjects /\ IdleGame

NextInput == TickOp \/ CharDownOp \/ CharHeldOp \/ CharUpOp

InitSpecInput ==
    /\ key_input = KeyInputInit
    /\ io = IoNew(<<>>)
    /\ IdleLog /\ IdleMomentum /\ IdleObjects /\ IdleGame

SpecInput == InitSpecInput /\ [][NextInput]_vars

\* The game loop keeps taking frames while it runs.
SpecCommands == InitSpecCommands /\ [][NextCommands]_vars /\ WF_vars(Frame)

InitSpecEmpty ==
    InitEmpty /\ log_hist = LogHistInit /\ IdleMomentum /\ IdleInput /\ objects = <<>> /\ last_move = LastMoveInit

SpecEmpty == InitSpecEmpty /\ [][StepGameEmpty]_vars

InitSpecWin ==
    InitWin /\ log_hist = LogHistInit /\ IdleMomentum /\ IdleInput /\ objects = <<>> /\ last_move = LastMoveInit

SpecWin == InitSpecWin /\ [][StepGameWin]_vars

InitSpecDrain ==
    InitPending /\ log_hist = LogHistInit /\ IdleMomentum /\ IdleInput /\ objects = <<>> /\ last_move = LastMoveInit

SpecDrain == InitSpecDrain /\ [][StepGamePending]_vars

NextReach == MoveWithReachOp \/ OffsetsOp

InitSpecReach == IdleObjects /\ IdleLog /\ IdleMomentum /\ IdleInput /\ IdleGame

SpecReach == InitSpecReach /\ [][NextReach]_vars

InitSpecTurn ==
    InitTurn /\ log_hist = LogHistInit /\ IdleMomentum /\ IdleInput /\ objects = <<>> /\ last_move = LastMoveInit

SpecTurn == InitSpecTurn /\ [][StepGameTurn]_vars

Next ==
    \/ StepGamePlaying
    \/ StepGameWin
    \/ StepGameLose
    \/ StepGameInventory
    \/ StepGameSelection
    \/ StepGameSkillMenu
    \/ StepGameClassMenu
    \/ StepGameConfirmQuit

Init ==
    /\ InitGame
    /\ log_hist = LogHistInit
    /\ IdleMomentum /\ IdleInput
    /\ objects = <<>>
    /\ last_move = LastMoveInit

Spec == Init /\ [][Next]_vars

----------------------------------------------------------------------------
(* The properties checked.                                                 *)

\* C1: across the calls of step_game turn_count never decreases: a call
\* changes it by exactly +1 when the player's action takes a full turn, and
\* by 0 otherwise (an action that takes no turn, a half-turn, NoAction, a
\* call in Win, Lose or a menu state).
C1_TurnCountStep ==
    [][ settings'.turn_count =
            settings.turn_count
            + (IF last_step'.action.turn = "Full" THEN 1 ELSE 0) ]_vars

\* A second full turn was counted, after a half-turn somewhere before or not.
C1_Witness ==
    /\ last_step.action.turn = "Full"
    /\ last_step.ran_logic
    /\ settings.turn_count = 2

\* C2: after any sequence of resolved moves by any entities, no two distinct
\* objects with blocks = true stand on the same tile.
C2_NoTwoBlockersShareTile ==
    \A i \in ObjectIds, j \in ObjectIds :
        i # j /\ objects[i].blocks /\ objects[j].blocks
            => Pos(objects[i]) # Pos(objects[j])

\* C3: the position every object has after calculate_move or
\* player_move_or_attack was applied lies within the map bounds.
C3_PositionsWithinBounds ==
    \A i \in ObjectIds : IsWithinBounds(map, objects[i].x, objects[i].y)

C5_MomentumWithinMax ==
    /\ Abs(momentum.mx) <= momentum.max
    /\ Abs(momentum.my) <= momentum.max

\* C5's case: a move along the momentum of an axis already at max.
C5_Witness ==
    /\ mom_op.op = "moved"
    /\ mom_op.a > 0
    /\ mom_op.b < 0
    /\ momentum.mx = momentum.max
    /\ momentum.my = -momentum.max

\* new is old with msg put at its back, every other entry where it was.
IsPushBack(old, new, msg) ==
    /\ Len(new) = Len(old) + 1
    /\ new[Len(new)] = msg
    /\ \A i \in 1..Len(old) : new[i] = old[i]

\* new is old with msg put at its front, every other entry one place later.
IsPushFront(old, new, msg) ==
    /\ Len(new) = Len(old) + 1
    /\ new[1] = msg
    /\ \A i \in 1..Len(old) : new[i + 1] = old[i]

\* C7: log(m) appends m to the back of the main log and of the turn log, and
\* log_front(m) inserts m at the front of both; the other entries of both
\* queues keep their order.
C7_LogWritesBothQueues ==
    [][ /\ (log_hist'.next # log_hist.next /\ log_hist'.op = "log") =>
              /\ IsPushBack(msg_log.messages, msg_log'.messages, log_hist'.msg)
              /\ IsPushBack(msg_log.turn_messages, msg_log'.turn_messages, log_hist'.msg)
        /\ (log_hist'.next # log_hist.next /\ log_hist'.op = "log_front") =>
              /\ IsPushFront(msg_log.messages, msg_log'.messages, log_hist'.msg)
              /\ IsPushFront(msg_log.turn_messages, msg_log'.turn_messages, log_hist'.msg)
      ]_vars

\* C7's case: log_front on a log with pending messages and popped ones.
C7_Witness ==
    /\ log_hist.op = "log_front"
    /\ Len(msg_log.messages) >= 2
    /\ Len(msg_log.turn_messages) > Len(msg_log.messages)

\* C8: pop returns the messages in the order log took them, a message of
\* log_front before every message pending when it was added: when a message
\* of log is popped, what stays pending was logged with log after it; when a
\* message of log_front is popped, the log_front messages that stay pending
\* were added before it.
C8_PopOrder ==
    (log_hist.op = "pop" /\ log_hist.ret # NoMsg) =>
        \A q \in Range(msg_log.messages) :
            IF log_hist.ret.id \in log_hist.fronts
            THEN q.id \in log_hist.fronts => q.id < log_hist.ret.id
            ELSE q.id \notin log_hist.fronts /\ q.id > log_hist.ret.id

\* C8's case: a log_front message popped ahead of an older log_front message
\* and of a message of log.
C8_Witness ==
    /\ log_hist.op = "pop"
    /\ log_hist.ret # NoMsg
    /\ log_hist.ret.id \in log_hist.fronts
    /\ \E q \in Range(msg_log.messages) : q.id \in log_hist.fronts
    /\ \E q \in Range(msg_log.messages) : q.id \notin log_hist.fronts

IsPrefix(old, new) ==
    Len(old) <= Len(new) /\ SubSeq(new, 1, Len(old)) = old

C10_ExitCondition ==
    last_step.ran_logic =>
        (last_step.won <=>
            \E x \in DOMAIN entities.ent, p \in DOMAIN entities.ent :
                /\ entities.ent[x].name = "exit"
                /\ entities.ent[p].name = "player"
                /\ entities.ent[p].pos = entities.ent[x].pos
                /\ \E k \in Range(entities.ent[p].inventory) :
                       /\ k \in DOMAIN entities.ent
                       /\ entities.ent[k].item = "Goal")

\* A turn ended with the player on the exit, holding the goal.
C10_Witness == last_step.ran_logic /\ last_step.won

\* The player stands on the tile of an exit and holds an item of kind Goal.
OnExitWithGoal(data) ==
    \E x, p \in DOMAIN data.ent :
        /\ data.ent[x].name = "exit"
        /\ data.ent[p].name = "player"
        /\ data.ent[x].pos = data.ent[p].pos
        /\ \E k \in Range(data.ent[p].inventory) :
               k \in DOMAIN data.ent /\ data.ent[k].item = "Goal"

\* The level make_map has just built: the player at its start, the gol
\* alive at its start, the particle with its full count.
LevelFresh(data) ==
    /\ \E p \in DOMAIN data.ent :
           data.ent[p].name = "player" /\ data.ent[p].pos = <<0, 0>>
    /\ \E g \in DOMAIN data.ent :
           /\ data.ent[g].name = "gol" /\ data.ent[g].alive
           /\ data.ent[g].pos = <<MapWidth - 1, MapHeight - 1>>
    /\ \E c \in DOMAIN data.ent :
           data.ent[c].name = "particle" /\ data.ent[c].count_down = SomeCount(MaxCountDown)

\* C11: a step that ran a turn and leaves the player on the exit tile with
\* a Goal item leaves the state Win; the step_game call made in Win with an
\* input other than Exit adds one to level_num, builds the next level and
\* sets the state to Playing.
C11_WinThenNextLevel ==
    [][ /\ (last_step'.ran_logic /\ OnExitWithGoal(entities')) =>
               settings'.state = "Win"
        /\ (settings.state = "Win" /\ last_step'.input.typ # "Exit") =>
               /\ settings'.level_num = settings.level_num + 1
               /\ settings'.state = "Playing"
               /\ map' = MapOf(MapWidth, MapHeight, {}, {}, {})
               /\ LevelFresh(entities') ]_vars

\* A level was won by a turn and the call after it changed the level.
C11_Witness ==
    /\ last_step.state = "Win"
    /\ last_step.input.typ # "Exit"
    /\ settings.state = "Playing"
    /\ settings.level_num = 1

\* The messages of a step that come from an entity other than the player.
ByOthers(logged, data) ==
    { i \in DOMAIN logged :
        /\ logged[i].typ \in {"Action", "Moved", "Attack", "StateChange"}
        /\ logged[i].id \in DOMAIN data.ent
        /\ data.ent[logged[i].id].name # "player" }

\* C12: a step whose player action is the first half of a momentum move
\* leaves turn_count as it was, calls the planner for no entity and logs no
\* action, move or attack of an entity other than the player.
C12_HalfTurnNoAi ==
    [][ last_step'.action.turn = "Half" =>
            /\ last_step'.ran_logic
            /\ settings'.turn_count = settings.turn_count
            /\ last_step'.plans = <<>>
            /\ ByOthers(last_step'.logged, entities') = {} ]_vars

\* A half-turn was stepped next to a gol that is alive and not frozen.
C12_Witness ==
    /\ last_step.action.turn = "Half"
    /\ last_step.ran_logic
    /\ \E g \in DOMAIN entities.ent :
           /\ entities.ent[g].ai # None
           /\ entities.ent[g].alive
           /\ entities.ent[g].fighter.present
           /\ entities.ent[g].frozen = 0

\* The player of a store.
PlayerOf(data) == data.ent[CHOOSE p \in DOMAIN data.ent : data.ent[p].name = "player"]

\* The player is at pos with the momentum (mx, my) and turn_count is n.
PlayerAt(data, s, pos, mx, my, n) ==
    /\ PlayerOf(data).pos = pos
    /\ PlayerOf(data).momentum.mx = mx
    /\ PlayerOf(data).momentum.my = my
    /\ s.turn_count = n

\* A step with the input Move(dir) takes the player from one place of the
\* walk of test_game_step to the next.
WalkStep(dir, from, fx, fy, n, to, tx, ty) ==
    (/\ last_step'.input = InputAction("Move", dir)
     /\ PlayerAt(entities, settings, from, fx, fy, n))
        => PlayerAt(entities', settings', to, tx, ty, n + 1)

\* The tile one step in the direction of the input of the step.
MoveTarget ==
    <<PlayerOf(entities).pos[1] + DirOffset(last_step'.input.dir, 1)[1],
      PlayerOf(entities).pos[2] + DirOffset(last_step'.input.dir, 1)[2]>>

\* The move of the step is the first half of a momentum move.
MoveIsHalf ==
    /\ Magnitude(PlayerOf(entities').momentum) > 1
    /\ ~PlayerOf(entities).momentum.took_half_turn

TurnRan(logged) == \E i \in DOMAIN logged : logged[i].typ = "PlayerTurn"

\* C14: a step_game call runs step_logic exactly when the state it is made
\* in is Playing, Selection, SkillMenu or ClassMenu and the input translates
\* to an action other than NoAction; a call made in Win, Lose, Inventory or
\* ConfirmQuit runs no turn, leaves turn_count as it was, calls the planner
\* for no entity and logs nothing of an entity other than the player.
C14_TurnOnlyInFourStates ==
    [][ /\ TurnRan(last_step'.logged) <=>
               /\ last_step'.state \in {"Playing", "Selection", "SkillMenu", "ClassMenu"}
               /\ last_step'.action # NoAction
        /\ last_step'.state \in {"Win", "Lose", "Inventory", "ConfirmQuit"} =>
               /\ ~TurnRan(last_step'.logged)
               /\ last_step'.action = NoAction
               /\ settings'.turn_count = settings.turn_count
               /\ last_step'.plans = <<>>
               /\ ByOthers(last_step'.logged, entities') = {} ]_vars

\* An item was chosen in the inventory after a turn, next to a gol that is
\* alive and not frozen.
C14_Witness ==
    /\ last_step.state = "Inventory"
    /\ last_step.input.typ = "SelectItem"
    /\ settings.turn_count >= 1
    /\ \E g \in DOMAIN entities.ent :
           /\ entities.ent[g].ai # None
           /\ entities.ent[g].alive
           /\ entities.ent[g].fighter.present
           /\ entities.ent[g].frozen = 0

\* The messages of a step that are a Move action of the entity k or what
\* the resolver makes of one.
ByEntity(logged, k) ==
    { i \in DOMAIN logged :
        /\ logged[i].id = k
        /\ \/ logged[i].typ \in {"Moved", "Attack"}
           \/ logged[i].typ = "Action" /\ logged[i].action.typ = "Move" }

\* The entity k is one the AI block of a turn plans for.
PlansFor(data, k) ==
    /\ data.ent[k].ai # None
    /\ data.ent[k].alive
    /\ ~data.ent[k].limbo
    /\ data.ent[k].fighter.present

C16_LevelChangeKeeps ==
    [][ settings.state = "Win" =>
            /\ settings'.turn_count = settings.turn_count
            /\ settings'.god_mode = settings.god_mode
            /\ rng'.seed = rng.seed
            /\ rng'.draws >= rng.draws
            /\ settings'.state = "Playing" =>
                   /\ settings'.level_num = settings.level_num + 1
                   /\ rng' = Draw(rng)
            /\ settings'.state # "Playing" =>
                   /\ settings'.level_num = settings.level_num
                   /\ rng' = rng ]_vars

\* The level was changed in god mode after some turns.
C16_Witness ==
    /\ last_step.state = "Win"
    /\ settings.state = "Playing"
    /\ settings.god_mode
    /\ settings.turn_count >= 1
    /\ settings.level_num = 1

\* C17: a step_game call made in Win while the player holds no Goal item
\* does not abort, and leaves the state, level_num and the inventory as
\* they were.
C17_WinWithoutGoalProceeds ==
    [][ (/\ settings.state = "Win"
         /\ IsInInventory(entities, FindPlayer(entities), "Goal") = NoId) =>
            /\ last_step'.result # "Panic"
            /\ settings'.state = settings.state
            /\ settings'.level_num = settings.level_num
            /\ PlayerOf(entities').inventory = PlayerOf(entities).inventory ]_vars

\* A GameState message of a state msg_line has no text for is in the log.
UnmappedGameStatePending ==
    \E i \in DOMAIN msg_log.messages :
        /\ msg_log.messages[i].typ = "GameState"
        /\ msg_log.messages[i].action.arg \notin {"Inventory", "Playing", "Throwing"}

\* C18: a step_game call whose drain meets a GameState message of a state
\* other than Inventory, Playing or Throwing completes normally: it returns
\* its GameResult and leaves the log empty.
C18_UnmappedGameStateIsNoOp ==
    [][ UnmappedGameStatePending =>
            /\ last_step'.result \in {"Continue", "Stop"}
            /\ msg_log'.messages = <<>> ]_vars

\* The directions a reach kind allows.
DiagonalDirs == {"DownLeft", "DownRight", "UpLeft", "UpRight"}

OrthogonalDirs == {"Left", "Right", "Up", "Down"}

AllowedDirs(kind) ==
    CASE kind = "Single" -> DiagonalDirs \cup OrthogonalDirs
      [] kind = "Diag"   -> DiagonalDirs
      [] kind = "Horiz"  -> OrthogonalDirs

\* The unit offset of a direction, scaled by n.
Scaled(move_action, n) ==
    <<n * DirOffset(move_action, 1)[1], n * DirOffset(move_action, 1)[2]>>

\* C19: move_with_reach returns the unit offset of the direction scaled by n
\* for Single(n) in the eight directions and (0, 0) for Single(n) with
\* Center, for Diag(n) in the four diagonals and for Horiz(n) in the four
\* orthogonals, and None for every other combination.
C19_MoveWithReachTable ==
    (last_move.op = "move_with_reach" /\ last_move.reach.dist >= 1) =>
        last_move.ret =
            IF last_move.move_action \in AllowedDirs(last_move.reach.kind)
            THEN Scaled(last_move.move_action, last_move.reach.dist)
            ELSE IF last_move.reach.kind = "Single" THEN <<0, 0>>
            ELSE NoOffset

\* C20: for n >= 1, offsets() returns exactly the offsets at each distance
\* 1..n along the directions the reach allows.
C20_OffsetsEachDistance ==
    (last_move.op = "offsets" /\ last_move.reach.dist >= 1) =>
        Range(last_move.ret) =
            { Scaled(move_action, k) :
                  move_action \in AllowedDirs(last_move.reach.kind),
                  k \in 1..last_move.reach.dist }

\* The planner was called or an entity other than the player acted.
AiActive(step, data) == step.plans # <<>> \/ ByOthers(step.logged, data) # {}

\* The player's own action killed it: the spikes it stepped on did.
KilledBySpikes(logged, data) ==
    \E i \in DOMAIN logged :
        /\ logged[i].typ = "Killed"
        /\ data.ent[logged[i].id].name = "spike"
        /\ data.ent[logged[i].other].name = "player"

\* C22: in a step that runs a turn, the planner is called and entities
\* other than the player act only when the player's action takes the turn,
\* the player's action did not kill it and the level is not won; every entity
\* planned for or acting had an ai and a fighter, was alive and not in limbo;
\* a step that wins the level leaves the state Win and has no AI activity.
C22_AiOnlyOnLiveFullTurn ==
    [][ last_step'.ran_logic =>
            /\ AiActive(last_step', entities) =>
                   /\ TakesTurn(last_step'.action)
                   /\ ~KilledBySpikes(last_step'.logged, entities)
                   /\ ~last_step'.won
            /\ \A i \in DOMAIN last_step'.plans :
                   /\ last_step'.plans[i][1] \in DOMAIN entities.ent
                   /\ PlansFor(entities, last_step'.plans[i][1])
            /\ \A i \in ByOthers(last_step'.logged, entities) :
                   PlansFor(entities, last_step'.logged[i].id)
            /\ last_step'.won =>
                   /\ settings'.state = "Win"
                   /\ ~AiActive(last_step', entities) ]_vars

\* The player stepped onto the exit with the key, next to a gol that is
\* alive, attacking and neither frozen nor in limbo: the level is won and no
\* entity planned or acted.
C22_Witness ==
    /\ last_step.ran_logic
    /\ last_step.won
    /\ TakesTurn(last_step.action)
    /\ settings.state = "Win"
    /\ last_step.plans = <<>>
    /\ \E g \in DOMAIN entities.ent :
           PlansFor(entities, g) /\ entities.ent[g].behavior = "Attacking"

\* C23: in a step, the calls of the planner for one entity are not
\* interrupted by a call for another: once the planner is called for the
\* next entity, it is not called for an earlier one again.
C23_EachAiCompletesBeforeNext ==
    [][ \A i, j, k \in DOMAIN last_step'.plans :
            (i < j /\ j < k /\ last_step'.plans[i][1] = last_step'.plans[k][1]) =>
                last_step'.plans[j][1] = last_step'.plans[i][1] ]_vars

\* The calls of the planner for the entity k in a step, in order: the pass
\* and the kind of action returned.
PlansOf(plans, k) ==
    SelectSeq(plans, LAMBDA c : c[1] = k)

\* C24: in a step the planner is called for an entity at most three times:
\* an initial plan; a re-plan right after it, only when the initial plan was
\* a StateChange; and one final re-plan, which is the entity's last call
\* even when it returns a StateChange. Every step that plans ends.
C24_AtMostThreePlans ==
    [][ \A k \in DOMAIN entities.ent :
            LET calls == PlansOf(last_step'.plans, k)
                passes == [i \in DOMAIN calls |-> calls[i][2]]
            IN  /\ Len(calls) <= 3
                /\ passes \in {<<>>, <<1, 3>>, <<1, 2, 3>>}
                /\ passes = <<1, 2, 3>> <=> (calls # <<>> /\ calls[1][3] = "StateChange")
                /\ last_step'.result \in {"Continue", "Stop"} ]_vars

\* A gol changed its state in the initial plan, planned again, attacked and
\* killed the player, and changed its state once more in the final re-plan:
\* three calls, the last one a StateChange.
C24_Witness ==
    \E k \in DOMAIN entities.ent :
        LET calls == PlansOf(last_step.plans, k)
        IN  /\ Len(calls) = 3
            /\ calls[1][3] = "StateChange"
            /\ calls[3][3] = "StateChange"
            /\ entities.ent[k].behavior = "Idle"

\* The housekeeping of a turn removes the entity e: its count_down is at 0,
\* or it waits for removal and plays no animation.
DueForRemoval(e) ==
    \/ e.count_down.present /\ e.count_down.n = 0
    \/ e.needs_removal /\ e.animation = 0

\* C25: a step that runs step_logic removes an entity exactly when its
\* count_down is 0 or it has needs_removal set and no animation left; an
\* entity it keeps has a positive count_down decreased by exactly one, and an
\* entity with needs_removal set and an animation left is kept, unless its
\* count_down is 0.
C25_HousekeepingRemoves ==
    [][ last_step'.ran_logic =>
            \A k \in DOMAIN entities.ent :
                LET e == entities.ent[k]
                IN  /\ k \notin DOMAIN entities'.ent <=> DueForRemoval(e)
                    /\ k \in DOMAIN entities'.ent <=>
                           \E i \in DOMAIN entities'.ids : entities'.ids[i] = k
                    /\ (~DueForRemoval(e) /\ e.count_down.present) =>
                           /\ e.count_down.n > 0
                           /\ entities'.ent[k].count_down = SomeCount(e.count_down.n - 1)
                    /\ (~DueForRemoval(e) /\ ~e.count_down.present) =>
                           entities'.ent[k].count_down = NoCount
                    /\ (e.needs_removal /\ e.animation > 0
                          /\ ~(e.count_down.present /\ e.count_down.n = 0)) =>
                           /\ k \in DOMAIN entities'.ent
                           /\ entities'.ent[k].needs_removal ]_vars

\* A turn ran and the effect of the level is gone, while the two monsters,
\* which have no count_down and do not wait for removal, are still there.
C25_Witness ==
    /\ last_step.ran_logic
    /\ ~\E k \in DOMAIN entities.ent : entities.ent[k].name = "particle"
    /\ Cardinality({ k \in DOMAIN entities.ent : entities.ent[k].name = "gol" }) = 2

\* The Wall collision of the player's move that a call of
\* player_move_or_attack resolved jumps: the player is at full speed and
\* the tile beyond the wall is free.
WallJumps(objs, m, delta) ==
    LET c == CheckCollision(PLAYER, objs, delta[1], delta[2], m)
    IN  /\ c.kind = "Wall"
        /\ Magnitude(objs[PLAYER].momentum.m) = MAX_MOMENTUM
        /\ ~IsBlocked(m, c.tile[1], c.tile[2], objs)

ClearBefore(line, i, objs, m, dx, dy) ==
    \A k \in 1..(i - 1) :
        /\ ~IsBlocked(m, line[k][1], line[k][2], objs)
        /\ ~IsBlockedByWall(m, line[k][1], line[k][2], dx, dy)

\* C27: when check_collision answers Entity(other, last_clear), other is an
\* object with blocks = true, other than the mover, standing on the first
\* obstructed tile of the move line, and last_clear is the last tile before
\* it (the mover's own tile when the first tile of the line is obstructed),
\* also when a non-blocking object shares the tile.
C27_EntityCollisionNamesBlocker ==
    last_move.op = "check_collision" /\ last_move.ret.kind = "Entity" =>
        LET mover == objects[last_move.id]
            other == objects[last_move.ret.id]
            line == Line(mover.x, mover.y, last_move.dx, last_move.dy)
        IN  /\ last_move.ret.id # last_move.id
            /\ other.blocks
            /\ \E i \in DOMAIN line :
                  /\ Pos(other) = line[i]
                  /\ ClearBefore(line, i, objects, map, last_move.dx, last_move.dy)
                  /\ last_move.ret.last = IF i = 1 THEN Pos(mover) ELSE line[i - 1]

\* One axis of a momentum after a step, as C28 states it: lost when the
\* step goes against it, otherwise advanced by the step's sign and clamped.
AxisAfter(cur, delta, max) ==
    IF Signum(delta) * Signum(cur) < 0
    THEN 0
    ELSE Clamp(cur + Signum(delta), -max, max)

\* C28: moved(dx, dy) updates each axis on its own: an axis becomes 0 if the
\* sign of its delta opposes the sign of its momentum, and otherwise its
\* value plus the sign of the delta, clamped to [-max, max]; an axis with a
\* zero delta keeps its momentum.
C28_MovedPerAxis ==
    [][ mom_op'.op = "moved" =>
          /\ momentum'.mx = AxisAfter(momentum.mx, mom_op'.a, momentum.max)
          /\ momentum'.my = AxisAfter(momentum.my, mom_op'.b, momentum.max)
          /\ (mom_op'.a = 0 => momentum'.mx = momentum.mx)
          /\ (mom_op'.b = 0 => momentum'.my = momentum.my) ]_vars

C30_HalfTurnOnResultingMomentum ==
    [][ /\ last_move'.op = "player_move_or_attack"
        /\ last_move'.movement.typ \in {"Move", "JumpWall"}
        => LET before == objects[PLAYER].momentum.m
               after == objects'[PLAYER].momentum.m
               half == Magnitude(after) > 1 /\ ~before.took_half_turn
           IN  /\ last_move'.player_action = (IF half THEN "TookHalfTurn" ELSE "TookTurn")
               /\ after.took_half_turn = half ]_vars

\* C31: after a half-turn move, a following action of the player that is
\* not a move (an Attack, a Collide, a WallKick or no movement) ends the
\* compound turn: took_half_turn is false afterwards.
C31_NonMoveEndsCompoundTurn ==
    [][ /\ last_move'.op = "player_move"
        /\ last_move'.typ \notin {"Move", "JumpWall"}
        /\ objects[PLAYER].momentum.m.took_half_turn
        => ~objects'[PLAYER].momentum.m.took_half_turn ]_vars

\* C32: a diagonal move of the player that is obstructed, with the step
\* along one axis blocked and the slide tile along the other axis free,
\* resolves to WallKick; and after a WallKick the player stands on the slid
\* tile and holds the kick direction (dir_x, dir_y) as its momentum.
C32_WallKick ==
    [][ /\ last_move'.op = "player_move_or_attack" =>
            LET delta == MoveWithReach(objects[PLAYER].movement, last_move'.move_action)
            IN  /\ WallKicks(objects, map, delta[1], delta[2]) # {}
                /\ CheckCollision(PLAYER, objects, delta[1], delta[2], map).kind
                      \in {"BlockedTile", "Wall"}
                => last_move'.movement \in WallKicks(objects, map, delta[1], delta[2])
        /\ last_move'.op = "wall_kick" =>
            /\ Pos(objects'[PLAYER]) = <<last_move'.movement.x, last_move'.movement.y>>
            /\ objects'[PLAYER].momentum.m.mx = last_move'.movement.dir_x
            /\ objects'[PLAYER].momentum.m.my = last_move'.movement.dir_y ]_vars

\* An object is killed by a step: its fighter had hp above 0 before, and
\* after the step the fighter is gone or at hp 0 or below.
KilledBy(before, after) ==
    /\ before.fighter.present
    /\ before.fighter.hp > 0
    /\ (after.fighter.present => after.fighter.hp <= 0)

\* C33: an object that is killed ends with alive = false, blocks = false,
\* the glyph '%' and no ai, whether its death callback is Monster or Player.
C33_KilledBecomesCorpse ==
    [][ \A i \in ObjectIds :
          /\ last_move'.op \in {"take_damage", "attack"}
          /\ last_move'.id = i
          /\ KilledBy(objects[i], objects'[i])
          => /\ ~objects'[i].alive
             /\ ~objects'[i].blocks
             /\ objects'[i].char = "%"
             /\ objects'[i].ai = None ]_vars

\* C34 as stated: the loop never waits for the reader, takes at most one
\* line a frame, and every line the reader sent is executed once, in the
\* order sent: the lines sent are those executed followed by those pending.
C34_EveryLineExecuted ==
    /\ io.running => ENABLED Frame
    /\ io.executed \o io.channel = io.sent

\* C34, amended: a frame can always be taken while the loop runs, whatever
\* the channel holds, and takes at most one line; the lines taken followed
\* by the lines pending are the lines sent, so none is lost, taken twice
\* or out of order; a line taken is executed when it parses as a GameCmd
\* and reported otherwise; while the loop runs every line sent is taken.
C34_LinesTakenOnceInOrder ==
    /\ [](io.running => ENABLED Frame)
    /\ [](io.taken \o io.channel = io.sent)
    /\ [](io.executed = SelectSeq(io.taken, Parses))
    /\ [](io.output = SelectSeq(io.taken, LAMBDA l : ~Parses(l)))
    /\ [][Len(io'.taken) <= Len(io.taken) + 1]_vars
    /\ \A n \in 1..MaxLines :
          (Len(io.sent) >= n) ~> (Len(io.taken) >= n \/ ~io.running)

\* C34 witness: the loop still runs, has executed one line and reported
\* another, and a further line waits in the channel.
C34_Witness ==
    /\ io.running
    /\ io.executed # <<>>
    /\ io.output # <<>>
    /\ io.channel # <<>>

\* s is a subsequence of t: the elements of s appear in t in the same
\* relative order.
RECURSIVE IsSubsequence(_, _)
IsSubsequence(s, t) ==
    IF s = <<>> THEN TRUE
    ELSE IF t = <<>> THEN FALSE
    ELSE IF Head(s) = Head(t) THEN IsSubsequence(Tail(s), Tail(t))
    ELSE IsSubsequence(s, Tail(t))

\* C35: under any sequence of log, log_front, pop and clear the main log is
\* a subsequence of the turn log: every message pending in the main log is
\* in the turn log, in the same relative order.
C35_MainLogWithinTurnLog ==
    IsSubsequence(msg_log.messages, msg_log.turn_messages)

\* C35 witness: after a pop and a log_front the main log holds two messages
\* or more and the turn log holds more.
C35_Witness ==
    /\ Len(msg_log.messages) >= 2
    /\ Len(msg_log.turn_messages) > Len(msg_log.messages)
    /\ log_hist.fronts # {}
    /\ Head(msg_log.turn_messages) = Head(msg_log.messages)
    /\ msg_log.turn_messages[2] # msg_log.messages[2]

\* C36: Lose is absorbing: a step_game call in the Lose state leaves the
\* state Lose and turn_count, level_num and the entities unchanged, for
\* every input, and returns Stop exactly when the input is Exit.
C36_LoseAbsorbing ==
    [][ settings.state = "Lose" =>
          /\ settings'.state = "Lose"
          /\ settings'.turn_count = settings.turn_count
          /\ settings'.level_num = settings.level_num
          /\ entities' = entities
          /\ last_step'.result = "Stop" <=> last_step'.input.typ = "Exit" ]_vars

\* C36 witness: a step taken in the Lose state with an input other than
\* Exit, after the player died.
C36_Witness ==
    /\ last_step.state = "Lose"
    /\ last_step.input.typ \notin {"Exit", "None"}
    /\ last_step.result = "Continue"
    /\ settings.state = "Lose"
    /\ ~entities.ent[FindPlayer(entities)].alive

\* C37: no two consecutive Move or JumpWall outcomes of the player are both
\* half turns: a move of a player whose last move was classified
\* TookHalfTurn (took_half_turn holds) is classified TookTurn, whatever the
\* momentum, and leaves took_half_turn false.
C37_NoTwoHalfTurnsInARow ==
    [][ /\ last_move'.op = "player_move_or_attack"
        /\ last_move'.movement.typ \in {"Move", "JumpWall"}
        /\ objects[PLAYER].momentum.m.took_half_turn
        => /\ last_move'.player_action = "TookTurn"
           /\ ~objects'[PLAYER].momentum.m.took_half_turn ]_vars

\* C37 witness: a wall jump classified as a full turn. A wall is jumped at
\* full momentum only, where a move is a full turn only after a half turn.
C37_Witness ==
    /\ last_move.op = "player_move_or_attack"
    /\ last_move.movement.typ = "JumpWall"
    /\ last_move.player_action = "TookTurn"
    /\ ~objects[PLAYER].momentum.m.took_half_turn

\* The step is the Up event of chr, the Down event of chr, a Held event.
UpStep(chr) == chr \in key_input.pressed /\ chr \notin key_input'.pressed
DownStep(chr) == chr \notin key_input.pressed /\ chr \in key_input'.pressed
HeldStep(chr) ==
    /\ key_input' # key_input
    /\ key_input'.time = key_input.time
    /\ key_input'.pressed = key_input.pressed
    /\ key_input'.last.chr = chr

\* C38: in a key press cycle (Down, Held events, Up) the Up event gives an
\* action only if no Held event of the cycle gave a repeat; a Down event
\* puts the key in char_held with the time of the event and no repetitions;
\* and the Up event of a tap (Down, then Up at once) is not suppressed: the
\* key leaves char_held, and a direction key gives its action on the Up
\* event and none on the Down event.
C38_UpActsOnlyWithoutRepeat ==
    [][\A chr \in Chars :
        /\ (UpStep(chr) /\ key_input'.last.action # InputNone)
           => key_input.repeats[chr] = 0
        /\ DownStep(chr)
           => key_input'.input.char_held[chr] = HeldState(key_input.time, 0)
        /\ (UpStep(chr) /\ key_input.last.chr = chr /\ key_input.last.dir = "Down")
           => /\ key_input'.input.char_held[chr] = NoHeldState
              /\ chr = "4" => /\ key_input.last.action = InputNone
                              /\ key_input'.last.action # InputNone ]_vars

\* C38 witness: the Up event of a direction key that repeated while it was
\* held gives no action.
C38_Witness ==
    /\ key_input.last.chr = "4"
    /\ key_input.last.dir = "Up"
    /\ key_input.last.action = InputNone
    /\ key_input.repeats["4"] > 0
    /\ "4" \notin key_input.pressed

\* The repeat delays that passed since chr went down.
DelaysSince(k, chr) == (k.time - k.input.char_held[chr].down_time) \div RepeatDelay

\* C39: a Held event gives a repeat action only if the repeat delays passed
\* since the key went down exceed the repetitions counted; each repeat
\* given adds one to the count; the repeats a key gave since it went down
\* never exceed the repeat delays passed; and a Held event never gives
\* OverlayOff, Inventory, SkillMenu, Exit, CursorToggle or ClassMenu.
C39_HeldRepeatsByDelay ==
    [][\A chr \in Chars :
        /\ (HeldStep(chr) /\ key_input'.last.action # InputNone)
           => /\ DelaysSince(key_input, chr)
                     > key_input.input.char_held[chr].repetitions
              /\ key_input'.input.char_held[chr].repetitions
                     = key_input.input.char_held[chr].repetitions + 1
        /\ HeldStep(chr) => key_input'.last.action.typ \notin NotRepeated
        /\ chr \in key_input'.pressed
           => key_input'.repeats[chr] <= DelaysSince(key_input', chr) ]_vars

\* C39 witness: a direction key held to the last tick gave a repeat for
\* every repeat delay that passed.
C39_Witness ==
    /\ key_input.last.chr = "4"
    /\ key_input.last.dir = "Held"
    /\ key_input.last.action.typ = "Move"
    /\ key_input.repeats["4"] = MaxTime \div RepeatDelay
    /\ key_input.repeats["4"] > 0

\* C40: in a turn step, the second AI pass executes the planned action of
\* no entity that is no longer alive, and the final AI pass calls the
\* planner for no entity that is no longer alive.
C40_DeadAiNeitherActsNorReplans ==
    [][ last_step'.ran_logic =>
            /\ \A i \in DOMAIN last_step'.acts : last_step'.acts[i][2]
            /\ \A i \in DOMAIN last_step'.plans :
                   last_step'.plans[i][2] = 3 => last_step'.plans[i][4] ]_vars

============================================================================
